---- MODULE Spec2Model ----
(***************************************************************************)
(* A model of jtree (github.com/ecadlabs/jtree): the tokenizer and the     *)
(* recursive-descent parser, the type-directed decode engine, struct-field *)
(* introspection and the two registries.                                   *)
(*                                                                         *)
(* The module holds state machines over groups of variables. Each has its  *)
(* own specification, in which the groups it does not use stay idle:       *)
(*   SpecFields    collectFields on a drawn struct type graph              *)
(*   SpecDecode    Node.Decode on a drawn node, destination and options,   *)
(*                 read by read of the default registries, while another   *)
(*                 goroutine registers on them                             *)
(*   SpecRegistry  goroutines calling RegisterType / call on one registry   *)
(*   SpecParser    successive Parser.Parse calls on one drawn input         *)
(*   SpecDecoder   Decoder.Decode, DisallowUnknownFields and Unmarshal on   *)
(*                 one drawn stream: the parser's nodes into the engine     *)
(*   SpecReader, SpecScanner   successive token() calls of one reader       *)
(***************************************************************************)
EXTENDS Integers, Sequences, FiniteSets, TLC

VARIABLES
    \* struct introspection
    fdefs,      \* struct id -> sequence of declared fields
    fout,       \* the field table collectFields filled (name -> StructField)
    fmet,       \* history: the named fields the traversal met, in order
    fpc,        \* "start" | "done"
    \* one registry shared by goroutines
    rkind,      \* "types" (a TypeRegistry) | "encodings" (an EncodingRegistry)
    rmap,       \* key -> entry ("absent", "torn" or a value)
    rw,         \* the state of its sync.RWMutex
    rproc,      \* goroutine -> where it stands in its current call
    rfirst,     \* history: key -> the first entry stored under it
    rdup,       \* history: key -> a duplicate registration of it panicked
    \* one Parser over one input
    psrc,       \* the input, a sequence of code points
    pdocs,      \* history: the texts and separators the input was built from
    prd,        \* the reader: [rd, eof, unr, off]
    pres,       \* history: the result of every Parse call so far
    \* one Decode call
    dnode,      \* the node decoded
    dtype,      \* the type of the slot v points to
    dinit,      \* what the slot held before the call
    dvalid,     \* "ok" | "nilptr" | "nonptr" | "untyped": what v is
    dops,       \* the options of the call
    dreg,       \* defaultTypeRegistry: interface name -> constructor
    denc,       \* defaultEncodingRegistry: name -> encoding
    dseen,      \* what each read of a default registry by the call returned
    dpc,        \* "ready" | "running" | "done"
    dres,       \* [val, err, log]: the slot, the error, history of the calls made
    \* one reader over one string literal or over a run of lexemes
    tsrc,       \* the input, a sequence of code points
    tunits,     \* history: the pieces the input was written from
    trd,        \* the reader: [rd, eof, unr, off]
    ttoks       \* history: the result of every token() call so far

fvars == <<fdefs, fout, fmet, fpc>>
rvars == <<rkind, rmap, rw, rproc, rfirst, rdup>>
pvars == <<psrc, pdocs, prd, pres>>
dvars == <<dnode, dtype, dinit, dvalid, dops, dreg, denc, dseen, dpc, dres>>
tvars == <<tsrc, tunits, trd, ttoks>>

vars == <<fdefs, fout, fmet, fpc, rkind, rmap, rw, rproc, rfirst, rdup,
          psrc, pdocs, prd, pres,
          dnode, dtype, dinit, dvalid, dops, dreg, denc, dseen, dpc, dres,
          tsrc, tunits, trd, ttoks>>

\* What each state machine leaves alone.
notF == <<rvars, pvars, dvars, tvars>>
notR == <<fvars, pvars, dvars, tvars>>
notP == <<fvars, rvars, dvars, tvars>>
notD == <<fvars, rvars, pvars, tvars>>
notT == <<fvars, rvars, pvars, dvars>>

(***************************************************************************)
(* Helpers on sequences and finite maps.                                   *)
(***************************************************************************)
InSeq(x, s) == \E i \in 1..Len(s) : s[i] = x

EmptyMap == [x \in {} |-> x]

\* All sequences over S of length at most n.
SeqsUpTo(S, n) == UNION {[1..m -> S] : m \in 0..n}

\* No two positions of s agree under key.
Distinct(s, key(_)) == \A i, j \in 1..Len(s) : i # j => key(s[i]) # key(s[j])

(***************************************************************************)
(* Struct introspection: src/utils.go                                      *)
(***************************************************************************)

\* ---- the reflect.Type descriptors the model uses ----
IntT == [k |-> "int"]
StructT(id) == [k |-> "struct", id |-> id]
PtrT(t) == [k |-> "ptr", elem |-> t]

\* A declared struct field, as reflect.StructField shows it: its declared
\* name, the name part and the option part of its `json` tag, whether it is
\* anonymous (embedded), whether it is exported, and its type.
Fld(name, tag, opts, anon, exported, typ) ==
    [name |-> name, tag |-> tag, opts |-> opts, anon |-> anon,
     exported |-> exported, typ |-> typ]

\* mkIndex(a, b): the concatenation of two index paths.
mkIndex(a, b) == a \o b

\* The condition of collectFields' dive branch.
IsDive(f) ==
    /\ f.tag = ""
    /\ f.anon
    /\ \/ f.typ.k = "struct"
       \/ f.typ.k = "ptr" /\ f.typ.elem.k = "struct"

\* The scan of collectFields' ptr list (lines 36-39): the pointer type ft is
\* already in it. loopDetectedNested is the stricter rule that refuses every
\* pointer embedded under another pointer.
loopDetectedNested(ptr, ft) == ptr # <<>>
loopDetected(ptr, ft) == InSeq(ft, ptr)

\* The duplicate rule of collectFields as the source writes it: the entry
\* already in the table is kept iff len(prev.Index) <= len(f.Index), where f
\* is the field as t.Field(i) returns it, whose Index is the one-element
\* path [i] inside its own struct.
KeepPrev(prevIndex, localIndex, fullIndex) == Len(prevIndex) <= Len(localIndex)

\* collectFields(t, index, ptr, out), one loop iteration at a time: i is the
\* 1-based position of the field being visited (the source's i is i-1), acc
\* is [out, list, met] as built so far. ptr is the frame's own slice: an
\* append stays for the later fields of the same frame. met is a history of
\* the call, not program state: every field that reached the naming branch
\* (lines 50-53), in the order the traversal met it.
RECURSIVE collectLoop(_, _, _, _, _, _)
collectLoop(defs, t, i, index, ptr, acc) ==
    IF i > Len(defs[t]) THEN acc
    ELSE
      LET f      == defs[t][i]
          local  == <<i - 1>>
          full   == mkIndex(index, local)
          name0  == f.tag
      IN
      IF name0 = "-" THEN collectLoop(defs, t, i + 1, index, ptr, acc)
      ELSE IF IsDive(f) THEN
        IF f.typ.k = "ptr" THEN
          IF ~f.exported THEN collectLoop(defs, t, i + 1, index, ptr, acc)
          ELSE IF loopDetected(ptr, f.typ) THEN
            \* loop detected
            collectLoop(defs, t, i + 1, index, ptr, acc)
          ELSE
            LET ptr2 == Append(ptr, f.typ)
                sub  == collectLoop(defs, f.typ.elem.id, 1, full, ptr2,
                                    [out |-> acc.out, list |-> <<>>, met |-> acc.met])
            IN collectLoop(defs, t, i + 1, index, ptr2,
                           [out |-> sub.out, list |-> acc.list \o sub.list,
                            met |-> sub.met])
        ELSE
          LET sub == collectLoop(defs, f.typ.id, 1, full, ptr,
                                 [out |-> acc.out, list |-> <<>>, met |-> acc.met])
          IN collectLoop(defs, t, i + 1, index, ptr,
                         [out |-> sub.out, list |-> acc.list \o sub.list,
                          met |-> sub.met])
      ELSE IF ~f.exported THEN collectLoop(defs, t, i + 1, index, ptr, acc)
      ELSE
        LET name  == IF name0 = "" THEN f.name ELSE name0
            field == [Name |-> name, Index |-> full, Options |-> f.opts,
                      Type |-> f.typ, Owner |-> t]
        IN
        IF name \in DOMAIN acc.out /\ KeepPrev(acc.out[name].Index, local, full)
        THEN collectLoop(defs, t, i + 1, index, ptr,
                         [acc EXCEPT !.met = Append(@, field)])
        ELSE collectLoop(defs, t, i + 1, index, ptr,
                         [out  |-> (name :> field) @@ acc.out,
                          list |-> Append(acc.list, field),
                          met  |-> Append(acc.met, field)])

collectFields(defs, t, index, ptr, out) ==
    collectLoop(defs, t, 1, index, ptr, [out |-> out, list |-> <<>>, met |-> <<>>])

\* VisibleFields(t) and the table Object.Decode builds: both start
\* collectFields with a nil index, a nil ptr list and an empty map.
FieldTable(defs, t) == collectFields(defs, t, <<>>, <<>>, EmptyMap).out
VisibleFields(defs, t) == collectFields(defs, t, <<>>, <<>>, EmptyMap).list
FieldsMet(defs, t) == collectFields(defs, t, <<>>, <<>>, EmptyMap).met

\* ---- the struct type graphs the checks draw from ----
MaxRootFields == 2
MaxSubFields == 1

StructIds == {"T", "A", "B", "C"}

\* Named fields: X; Y tagged `json:"X"`; the unexported x; X tagged `json:"-"`.
FX     == Fld("X", "", <<>>, FALSE, TRUE, IntT)
FYasX  == Fld("Y", "X", <<>>, FALSE, TRUE, IntT)
Fx     == Fld("x", "", <<>>, FALSE, FALSE, IntT)
FXdash == Fld("X", "-", <<>>, FALSE, TRUE, IntT)

\* Embedded fields: by value and through a pointer. An embedded field's
\* declared name is its type's name, and it is exported iff that name is.
Emb(id, exported)    == Fld(id, "", <<>>, TRUE, exported, StructT(id))
EmbPtr(id, exported) == Fld(id, "", <<>>, TRUE, exported, PtrT(StructT(id)))

\* By-value embedding only goes down the order T, A, B, C (Go rejects a
\* struct that contains itself by value); pointers may point anywhere.
ShapesOf(id, cexp) ==
    CASE id = "T" -> {FX, FYasX, Emb("A", TRUE), Emb("B", TRUE),
                      EmbPtr("A", TRUE), EmbPtr("B", TRUE)}
      [] id = "A" -> {FX, Emb("C", cexp), EmbPtr("C", cexp),
                      EmbPtr("A", TRUE), EmbPtr("B", TRUE)}
      [] id = "B" -> {FX, Emb("C", cexp), EmbPtr("C", cexp), EmbPtr("A", TRUE)}
      [] id = "C" -> {FX, Fx, FXdash, EmbPtr("A", TRUE)}

FieldName(f) == f.name

\* The field lists a struct may declare: Go rejects duplicate field names.
FieldLists(id, cexp) ==
    {s \in SeqsUpTo(ShapesOf(id, cexp),
                    IF id = "T" THEN MaxRootFields ELSE MaxSubFields) :
        Distinct(s, FieldName)}

TypeGraphs ==
    UNION {[T : FieldLists("T", cexp), A : FieldLists("A", cexp),
            B : FieldLists("B", cexp), C : FieldLists("C", cexp)] :
           cexp \in BOOLEAN}

FieldsInit ==
    /\ fdefs \in TypeGraphs
    /\ fout = EmptyMap
    /\ fmet = <<>>
    /\ fpc = "start"

FieldsIdle ==
    /\ fdefs = [T |-> <<>>, A |-> <<>>, B |-> <<>>, C |-> <<>>]
    /\ fout = EmptyMap
    /\ fmet = <<>>
    /\ fpc = "idle"

\* Building the field table of the root struct T, as Object.Decode does.
CollectFields ==
    /\ fpc = "start"
    /\ fout' = FieldTable(fdefs, "T")
    /\ fmet' = FieldsMet(fdefs, "T")
    /\ fpc' = "done"
    /\ UNCHANGED <<fdefs, notF>>

FieldsNext == CollectFields

\* ---- claims on the field table ----
Depth(f) == Len(f.Index)

\* The positions of fmet that hold a field of external name n.
MetNamed(n) == {i \in 1..Len(fmet) : fmet[i].Name = n}

\* C2. Equal-depth ambiguity: when two fields met by the traversal carry the
\* same external name at the same depth (whatever that depth is), the later
\* one is never the table's entry; and when every field of that name lies at
\* one depth, the entry is the first of them in declaration order.
C2_EqualDepthFirstWins ==
    fpc = "done" =>
      \A n \in DOMAIN fout :
        /\ \A i, j \in MetNamed(n) :
              (i < j /\ Depth(fmet[i]) = Depth(fmet[j]))
                => fout[n].Index # fmet[j].Index
        /\ (\A i, j \in MetNamed(n) : Depth(fmet[i]) = Depth(fmet[j]))
              => \A i \in MetNamed(n) :
                   (\A j \in MetNamed(n) : i <= j) => fout[n].Index = fmet[i].Index

\* C3. Shallowest wins: the table's entry for a name lies at the least depth
\* at which the traversal met a field of that name, in whichever order the
\* shallower and the deeper field were met.
C3_ShallowestWins ==
    fpc = "done" =>
      \A n \in DOMAIN fout :
        \A i \in MetNamed(n) : Depth(fout[n]) <= Depth(fmet[i])

\* The declared fields an index path goes through, from struct t down: the
\* embedded fields it dives through and, last, the field it names.
RECURSIVE PathFields(_, _, _)
PathFields(defs, t, index) ==
    IF index = <<>> THEN <<>>
    ELSE LET f == defs[t][index[1] + 1]
         IN IF Len(index) = 1 THEN <<f>>
            ELSE <<f>> \o PathFields(defs,
                                     IF f.typ.k = "ptr" THEN f.typ.elem.id
                                     ELSE f.typ.id,
                                     Tail(index))

\* The fields on the way to a table entry, from the root struct T.
EntryPath(e) == PathFields(fdefs, "T", e.Index)

\* C21. Unexported fields never participate: every entry of the field table
\* is an exported field, and no entry is reached through an unexported
\* embedded field, whether that field embeds by value or through a pointer.
C21_UnexportedNeverParticipate ==
    fpc = "done" =>
      \A n \in DOMAIN fout :
        \A i \in 1..Len(EntryPath(fout[n])) : EntryPath(fout[n])[i].exported

\* The struct an embedded field leads to.
Target(f) == IF f.typ.k = "ptr" THEN f.typ.elem.id ELSE f.typ.id

\* An embedding the traversal may follow: an untagged anonymous struct, or an
\* exported untagged anonymous pointer to a struct.
Follows(f) == IsDive(f) /\ (f.typ.k = "ptr" => f.exported)

\* The structs reachable from the structs of S through embeddings.
RECURSIVE Reach(_, _)
Reach(defs, S) ==
    LET more == S \cup {Target(defs[t][i]) :
                          <<t, i>> \in {x \in S \X (1..MaxRootFields + 1) :
                                          /\ x[2] <= Len(defs[x[1]])
                                          /\ Follows(defs[x[1]][x[2]])}}
    IN IF more = S THEN S ELSE Reach(defs, more)

\* The external name of a field that names itself, and the names every
\* reachable struct offers to the table.
ExternalName(f) == IF f.tag = "" THEN f.name ELSE f.tag
Offers(f) == f.tag # "-" /\ ~IsDive(f) /\ f.exported
ReachableNames(defs) ==
    {ExternalName(defs[t][i]) :
        <<t, i>> \in {x \in Reach(defs, {"T"}) \X (1..MaxRootFields + 1) :
                        /\ x[2] <= Len(defs[x[1]])
                        /\ Offers(defs[x[1]][x[2]])}}

\* The pointer types an index path dives through, in order.
PtrTypes(path) ==
    SelectSeq([i \in 1..Len(path) |-> path[i].typ], LAMBDA ty : ty.k = "ptr")

\* C22. Embedding cycles: for every struct type graph the traversal ends; no
\* field it met lies on a path that dives through one pointer type twice;
\* and every name a reachable struct offers is in the field table, so only
\* the repeating branch was left out.
C22_EmbeddingCycle ==
    fpc = "done" =>
      /\ \A i \in 1..Len(fmet) :
            Distinct(PtrTypes(EntryPath(fmet[i])), LAMBDA ty : ty)
      /\ DOMAIN fout = ReachableNames(fdefs)

\* C22 witness: T embeds *A and then declares X, A embeds *B and B embeds
\* *A back; the traversal ended with X in the table.
C22_Witness ==
    /\ fpc = "done"
    /\ fdefs.T = <<EmbPtr("A", TRUE), FX>>
    /\ fdefs.A = <<EmbPtr("B", TRUE)>>
    /\ fdefs.B = <<EmbPtr("A", TRUE)>>
    /\ "X" \in DOMAIN fout

(***************************************************************************)
(* The registries: src/registry.go                                         *)
(***************************************************************************)
NumGoroutines == 2
MaxCalls == 2

Procs == 1..NumGoroutines
Regs == {"types", "encodings"}

\* What a goroutine may pass to RegisterType: constructors f1 and f2 return
\* the interface UserType, g1 returns the interface Other, and bad is a
\* value RegisterType rejects (not a function, a wrong signature, or a
\* result that is no interface).
Ctors ==
    {[id |-> "f1", out |-> "UserType", valid |-> TRUE],
     [id |-> "f2", out |-> "UserType", valid |-> TRUE],
     [id |-> "g1", out |-> "Other", valid |-> TRUE],
     [id |-> "bad", out |-> "Other", valid |-> FALSE]}

TypeKeys == {"UserType", "Other"}
EncNames == {"hex", "custom"}
Encs == {"encA", "encB"}

KeysOf(reg) == IF reg = "types" THEN TypeKeys ELSE EncNames \cup {"base64"}

\* NewTypeRegistry / NewEncodingRegistry and init(): the default type
\* registry starts empty, the default encoding registry holds base64 and hex.
InitialEntry(reg, key) ==
    IF reg = "encodings" /\ key = "base64" THEN "Base64"
    ELSE IF reg = "encodings" /\ key = "hex" THEN "Hex"
    ELSE "absent"

\* sync.RWMutex. w is the goroutine inside Lock()..Unlock() (0: none); from
\* its Lock() on, pending turns away every new RLock; readers are the
\* goroutines between RLock() and RUnlock().
FreeLock == [w |-> 0, pending |-> FALSE, readers |-> {}]

CanLock == rw.w = 0

WriterMayEnter == rw.readers = {}

CanRLockNoWait == TRUE
CanRLock == ~rw.pending

\* A goroutine: where it is, the key and value of the operation it is in,
\* what its lookup read, and depth, the number of registered constructors it
\* is inside (the frames of reflect.Value.Call on its stack).
IdleProc == [pc |-> "idle", key |-> "none", val |-> "absent",
             res |-> "absent", afterdup |-> FALSE, depth |-> 0]

\* Where a goroutine is once the operation it is in returns: back in the
\* constructor that called it, or idle.
Home(p) ==
    [IdleProc EXCEPT !.depth = rproc[p].depth,
                     !.pc = IF rproc[p].depth = 0 THEN "idle" ELSE "ctor"]

\* A goroutine may enter the registry when it is idle, or from inside a
\* constructor, which decodes nested nodes or registers a type: constructors
\* nest at most MaxCalls deep.
MayBegin(p) ==
    \/ rproc[p].pc = "idle"
    \/ rproc[p].pc = "ctor" /\ rproc[p].depth < MaxCalls

RegistryInit ==
    /\ rkind \in Regs
    /\ rmap = [key \in KeysOf(rkind) |-> InitialEntry(rkind, key)]
    /\ rw = FreeLock
    /\ rproc = [p \in Procs |-> IdleProc]
    /\ rfirst = [key \in KeysOf(rkind) |-> InitialEntry(rkind, key)]
    /\ rdup = [key \in KeysOf(rkind) |-> FALSE]

RegistryIdle ==
    /\ rkind = "types"
    /\ rmap = [key \in KeysOf(rkind) |-> InitialEntry(rkind, key)]
    /\ rw = FreeLock
    /\ rproc = [p \in Procs |-> [IdleProc EXCEPT !.pc = "off"]]
    /\ rfirst = [key \in KeysOf(rkind) |-> InitialEntry(rkind, key)]
    /\ rdup = [key \in KeysOf(rkind) |-> FALSE]

\* TypeRegistry.RegisterType up to r.mtx.Lock(): the three structural checks
\* panic before the lock is touched.
RegisterTypeBegin(p, fn) ==
    /\ rkind = "types"
    /\ MayBegin(p)
    /\ rproc' = [rproc EXCEPT ![p] =
          IF fn.valid
          THEN [IdleProc EXCEPT !.pc = "w_lock", !.key = fn.out, !.val = fn.id,
                                !.depth = rproc[p].depth]
          ELSE [IdleProc EXCEPT !.pc = "panicked", !.val = "invalid"]]
    /\ UNCHANGED <<rkind, rmap, rw, rfirst, rdup, notR>>

\* EncodingRegistry.RegisterEncoding up to r.mtx.Lock().
RegisterEncodingBegin(p, name, enc) ==
    /\ rkind = "encodings"
    /\ rproc[p].pc = "idle"
    /\ rproc' = [rproc EXCEPT ![p] =
          [IdleProc EXCEPT !.pc = "w_lock", !.key = name, !.val = enc]]
    /\ UNCHANGED <<rkind, rmap, rw, rfirst, rdup, notR>>

\* r.mtx.Lock(), first half: the writer takes the writers' mutex and
\* announces itself, which blocks new readers.
Lock(p) ==
    /\ rproc[p].pc = "w_lock"
    /\ CanLock
    /\ rw' = [rw EXCEPT !.w = p, !.pending = TRUE]
    /\ rproc' = [rproc EXCEPT ![p].pc = "w_wait"]
    /\ UNCHANGED <<rkind, rmap, rfirst, rdup, notR>>

\* r.mtx.Lock(), second half: it returns once the active readers have left.
LockAcquired(p) ==
    /\ rproc[p].pc = "w_wait"
    /\ WriterMayEnter
    /\ rproc' = [rproc EXCEPT ![p].pc = "w_check"]
    /\ UNCHANGED <<rkind, rmap, rw, rfirst, rdup, notR>>

IsDuplicateNever(key) == FALSE
IsDuplicate(key) == rmap[key] # "absent"

\* `if _, ok := r.types[t]; ok { panic(...) }` under the lock. The panic runs
\* the deferred r.mtx.Unlock() and leaves the map as it is.
DuplicatePanic(p) ==
    LET key == rproc[p].key IN
    /\ rproc[p].pc = "w_check"
    /\ IsDuplicate(key)
    /\ rw' = [rw EXCEPT !.w = 0, !.pending = FALSE]
    /\ rproc' = [rproc EXCEPT ![p].pc = "panicked", ![p].val = "duplicate"]
    /\ rdup' = [rdup EXCEPT ![key] = TRUE]
    /\ UNCHANGED <<rkind, rmap, rfirst, notR>>

\* `r.types[t] = fn` is not atomic: until it completes, a goroutine reading
\* the map without the lock finds a half-written bucket.
StoreBegin(p) ==
    LET key == rproc[p].key IN
    /\ rproc[p].pc = "w_check"
    /\ ~IsDuplicate(key)
    /\ rmap' = [rmap EXCEPT ![key] = "torn"]
    /\ rproc' = [rproc EXCEPT ![p].pc = "w_store"]
    /\ UNCHANGED <<rkind, rw, rfirst, rdup, notR>>

StoreEnd(p) ==
    LET key == rproc[p].key IN
    /\ rproc[p].pc = "w_store"
    /\ rmap' = [rmap EXCEPT ![key] = rproc[p].val]
    /\ rfirst' = [rfirst EXCEPT ![key] = IF @ = "absent" THEN rproc[p].val ELSE @]
    /\ rproc' = [rproc EXCEPT ![p].pc = "w_unlock"]
    /\ UNCHANGED <<rkind, rw, rdup, notR>>

\* The deferred r.mtx.Unlock() on the normal return.
Unlock(p) ==
    /\ rproc[p].pc = "w_unlock"
    /\ rw' = [rw EXCEPT !.w = 0, !.pending = FALSE]
    /\ rproc' = [rproc EXCEPT ![p] = Home(p)]
    /\ UNCHANGED <<rkind, rmap, rfirst, rdup, notR>>

\* The caller recovers from RegisterType's or RegisterEncoding's panic,
\* which has unwound every constructor the goroutine was inside.
Recover(p) ==
    /\ rproc[p].pc = "panicked"
    /\ rproc' = [rproc EXCEPT ![p] = IdleProc]
    /\ UNCHANGED <<rkind, rmap, rw, rfirst, rdup, notR>>

\* TypeRegistry.call(t, ...) or EncodingRegistry.get(name) is entered.
LookupBegin(p, key) ==
    /\ MayBegin(p)
    /\ rproc' = [rproc EXCEPT ![p] =
          [IdleProc EXCEPT !.pc = "r_lock", !.key = key, !.afterdup = rdup[key],
                           !.depth = rproc[p].depth]]
    /\ UNCHANGED <<rkind, rmap, rw, rfirst, rdup, notR>>

\* r.mtx.RLock()
RLock(p) ==
    /\ rproc[p].pc = "r_lock"
    /\ CanRLock
    /\ rw' = [rw EXCEPT !.readers = @ \cup {p}]
    /\ rproc' = [rproc EXCEPT ![p].pc = "r_read"]
    /\ UNCHANGED <<rkind, rmap, rfirst, rdup, notR>>

\* `f, ok := r.types[t]` / `e := r.encodings[name]`
ReadMap(p) ==
    /\ rproc[p].pc = "r_read"
    /\ rproc' = [rproc EXCEPT ![p].res = rmap[rproc[p].key], ![p].pc = "r_unlock"]
    /\ UNCHANGED <<rkind, rmap, rw, rfirst, rdup, notR>>

\* The readers once p has called r.mtx.RUnlock(), which TypeRegistry.call
\* does before it invokes the constructor; heldDuringCall is a lookup that
\* keeps the shared lock.
heldDuringCall(readers, p) == readers
released(readers, p) == readers \ {p}

\* r.mtx.RUnlock()
RUnlock(p) ==
    /\ rproc[p].pc = "r_unlock"
    /\ rw' = [rw EXCEPT !.readers = released(@, p)]
    /\ rproc' = [rproc EXCEPT ![p].pc = "r_ret"]
    /\ UNCHANGED <<rkind, rmap, rfirst, rdup, notR>>

\* TypeRegistry.call found a constructor for the type.
Found(p) == rkind = "types" /\ rproc[p].res # "absent"

\* The lookup returns: get hands back e, call returns the zero Value when
\* no constructor is registered.
LookupReturn(p) ==
    /\ rproc[p].pc = "r_ret"
    /\ ~Found(p)
    /\ rproc' = [rproc EXCEPT ![p] = Home(p)]
    /\ UNCHANGED <<rkind, rmap, rw, rfirst, rdup, notR>>

\* reflect.ValueOf(f).Call(...): call invokes the constructor it found.
CtorCall(p) ==
    /\ rproc[p].pc = "r_ret"
    /\ Found(p)
    /\ rproc' = [rproc EXCEPT ![p] =
          [IdleProc EXCEPT !.pc = "ctor", !.depth = rproc[p].depth + 1]]
    /\ UNCHANGED <<rkind, rmap, rw, rfirst, rdup, notR>>

\* The constructor returns, and call with it.
CtorReturn(p) ==
    /\ rproc[p].pc = "ctor"
    /\ rproc' = [rproc EXCEPT ![p] =
          [IdleProc EXCEPT !.depth = rproc[p].depth - 1,
                           !.pc = IF rproc[p].depth = 1 THEN "idle" ELSE "ctor"]]
    /\ UNCHANGED <<rkind, rmap, rw, rfirst, rdup, notR>>

RegistryNext ==
    \E p \in Procs :
        \/ \E fn \in Ctors : RegisterTypeBegin(p, fn)
        \/ \E name \in EncNames, enc \in Encs : RegisterEncodingBegin(p, name, enc)
        \/ Lock(p)
        \/ LockAcquired(p)
        \/ DuplicatePanic(p)
        \/ StoreBegin(p)
        \/ StoreEnd(p)
        \/ Unlock(p)
        \/ Recover(p)
        \/ \E key \in KeysOf(rkind) \ {"base64"} : LookupBegin(p, key)
        \/ RLock(p)
        \/ ReadMap(p)
        \/ RUnlock(p)
        \/ LookupReturn(p)
        \/ CtorCall(p)
        \/ CtorReturn(p)

(***************************************************************************)
(* The tokenizer: src/reader.go                                            *)
(***************************************************************************)
\* Runes are code points. The ones the source names:
ChTab == 9
ChLF == 10
ChCR == 13
ChSpace == 32
ChQuote == 34
ChPlus == 43
ChComma == 44
ChMinus == 45
ChDot == 46
Ch0 == 48
Ch9 == 57
ChColon == 58
ChUpperA == 65
ChUpperE == 69
ChUpperF == 70
ChLBrack == 91
ChBackslash == 92
ChRBrack == 93
ChLowerA == 97
ChLowerB == 98
ChLowerE == 101
ChLowerF == 102
ChLowerN == 110
ChLowerR == 114
ChLowerT == 116
ChLowerU == 117
ChLowerX == 120
ChLowerZ == 122
ChLBrace == 123
ChRBrace == 125
ChBS == 8
ChFF == 12

\* reader.unr when nothing is pushed back.
NoRune == -1

isSpace(c) == c = ChSpace \/ c = ChTab \/ c = ChCR \/ c = ChLF

isNum(c) ==
    \/ c >= Ch0 /\ c <= Ch9
    \/ c = ChPlus \/ c = ChMinus \/ c = ChDot \/ c = ChLowerE \/ c = ChUpperE

\* Errors are records: e names the error ("nil": none), at its position,
\* what the offending text.
Err(e, at, what) == [e |-> e, at |-> at, what |-> what]
Nil == Err("nil", 0, <<>>)
EOF == Err("EOF", 0, <<>>)

\* newReader(r)
\* rd is how far into the source the io.RuneReader is; calls is a history
\* of the reader, not a field of it: how many times ReadRune was called.
newReader == [rd |-> 0, eof |-> FALSE, unr |-> NoRune, off |-> 0, calls |-> 0]

\* reader.pos()
pos(R) == R.off - 1

\* reader.rune(): the pushed-back rune if there is one, else the next rune of
\* the source txt; the end of the source sets eof.
rune(txt, R) ==
    IF R.unr >= 0
    THEN [r |-> [R EXCEPT !.unr = NoRune, !.off = @ + 1], v |-> R.unr, err |-> Nil]
    ELSE IF R.rd >= Len(txt)
    THEN [r |-> [R EXCEPT !.eof = TRUE, !.calls = @ + 1], v |-> 0, err |-> EOF]
    ELSE [r |-> [R EXCEPT !.rd = @ + 1, !.off = @ + 1, !.calls = @ + 1],
          v |-> txt[R.rd + 1], err |-> Nil]

\* reader.unread(b)
unreadLost(R, b) == R
unreadKeepOff(R, b) == [R EXCEPT !.unr = b]
unread(R, b) == [R EXCEPT !.unr = b, !.off = @ - 1]

\* utf16.Encode of one rune and utf16.Decode of a whole unit sequence.
IsHighSurrogate(u) == u >= 55296 /\ u <= 56319
IsLowSurrogate(u) == u >= 56320 /\ u <= 57343
ReplacementChar == 65533

utf16Encode(c) ==
    IF c >= 65536 /\ c <= 1114111
    THEN <<55296 + ((c - 65536) \div 1024), 56320 + ((c - 65536) % 1024)>>
    ELSE IF IsHighSurrogate(c) \/ IsLowSurrogate(c) \/ c > 1114111
    THEN <<ReplacementChar>>
    ELSE <<c>>

\* A decoder that never joins two units.
utf16DecodeUnits(u) ==
    [i \in 1..Len(u) |->
        IF IsHighSurrogate(u[i]) \/ IsLowSurrogate(u[i])
        THEN ReplacementChar ELSE u[i]]

RECURSIVE utf16Decode(_)
utf16Decode(u) ==
    IF u = <<>> THEN <<>>
    ELSE IF Len(u) >= 2 /\ IsHighSurrogate(u[1]) /\ IsLowSurrogate(u[2])
    THEN <<65536 + (u[1] - 55296) * 1024 + (u[2] - 56320)>>
         \o utf16Decode(SubSeq(u, 3, Len(u)))
    ELSE IF IsHighSurrogate(u[1]) \/ IsLowSurrogate(u[1])
    THEN <<ReplacementChar>> \o utf16Decode(Tail(u))
    ELSE <<u[1]>> \o utf16Decode(Tail(u))

IsHexDigit(c) ==
    \/ c >= Ch0 /\ c <= Ch9
    \/ c >= ChLowerA /\ c <= ChLowerF
    \/ c >= ChUpperA /\ c <= ChUpperF

HexValue(c) ==
    IF c >= Ch0 /\ c <= Ch9 THEN c - Ch0
    ELSE IF c >= ChLowerA /\ c <= ChLowerF THEN c - ChLowerA + 10
    ELSE c - ChUpperA + 10

Unescape(c) ==
    CASE c = ChLowerB -> ChBS
      [] c = ChLowerF -> ChFF
      [] c = ChLowerN -> ChLF
      [] c = ChLowerR -> ChCR
      [] c = ChLowerT -> ChTab
      [] OTHER -> c

\* reader.string(): the loop, with its locals esc, ln, code and u16.
\* stringLoop reads the next rune, stringRune is the loop body on it.
RECURSIVE stringLoop(_, _, _, _, _, _), stringRune(_, _, _, _, _, _)
stringLoop(txt, R, esc, ln, code, u16) ==
    stringRune(txt, rune(txt, R), esc, ln, code, u16)

stringRune(txt, g, esc, ln, code, u16) ==
    IF g.err.e # "nil" THEN [r |-> g.r, s |-> <<>>, err |-> g.err]
    ELSE IF ln # 0 THEN
        IF ~IsHexDigit(g.v)
        THEN [r |-> g.r, s |-> <<>>,
              err |-> Err("invalid hexadecimal digit", pos(g.r), <<g.v>>)]
        ELSE IF ln - 1 = 0
        THEN stringLoop(txt, g.r, esc, 0, 0,
                        Append(u16, (code * 16 + HexValue(g.v)) % 65536))
        ELSE stringLoop(txt, g.r, esc, ln - 1, code * 16 + HexValue(g.v), u16)
    ELSE IF esc THEN
        IF g.v = ChLowerU THEN stringLoop(txt, g.r, FALSE, 4, code, u16)
        ELSE IF g.v = ChLowerX THEN stringLoop(txt, g.r, FALSE, 2, code, u16)
        ELSE stringLoop(txt, g.r, FALSE, ln, code, u16 \o utf16Encode(Unescape(g.v)))
    ELSE IF g.v = ChBackslash THEN stringLoop(txt, g.r, TRUE, ln, code, u16)
    ELSE IF g.v = ChQuote THEN [r |-> g.r, s |-> utf16Decode(u16), err |-> Nil]
    ELSE stringLoop(txt, g.r, esc, ln, code, u16 \o utf16Encode(g.v))

readString(txt, R) == stringLoop(txt, R, FALSE, 0, 0, <<>>)

\* Tokens: tokDelim{ch, p}, tokString{str, p}, tokNum and tokRes.
Tok(t, s, p) == [t |-> t, s |-> s, p |-> p]
NoTok == Tok("none", <<>>, 0)

IsDelim(tok, ch) == tok.t = "delim" /\ tok.s = <<ch>>

\* The whitespace loop at the head of reader.token().
RECURSIVE skipSpace(_, _), skipRune(_, _)
skipSpace(txt, R) == skipRune(txt, rune(txt, R))

skipRune(txt, g) ==
    IF g.err.e # "nil" THEN g
    ELSE IF isSpace(g.v) THEN skipSpace(txt, g.r)
    ELSE g

\* The number loop and the keyword loop of reader.token(): s is the text
\* gathered so far, num tells which of the two loops runs.
isLower(c) == c >= ChLowerA /\ c <= ChLowerZ

RECURSIVE runLoop(_, _, _, _), runRune(_, _, _, _)
runLoop(txt, R, s, num) == runRune(txt, rune(txt, R), s, num)

runRune(txt, g, s, num) ==
    IF g.err.e = "EOF" THEN [r |-> g.r, s |-> s]
    ELSE IF ~(IF num THEN isNum(g.v) ELSE isLower(g.v))
    THEN [r |-> unread(g.r, g.v), s |-> s]
    ELSE runLoop(txt, g.r, Append(s, g.v), num)

\* The returns of reader.token().
runToken(t, n, p) == [r |-> n.r, tok |-> Tok(t, n.s, p), err |-> Nil]

stringToken(st, p) ==
    IF st.err.e # "nil" THEN [r |-> st.r, tok |-> NoTok, err |-> st.err]
    ELSE [r |-> st.r, tok |-> Tok("str", st.s, p), err |-> Nil]

\* The switch of reader.token() on the first rune g.v that is not whitespace.
tokenSwitch(txt, g) ==
    IF g.err.e # "nil" THEN [r |-> g.r, tok |-> NoTok, err |-> g.err]
    ELSE IF (g.v >= Ch0 /\ g.v <= Ch9) \/ g.v = ChMinus \/ g.v = ChDot
    THEN runToken("num", runLoop(txt, g.r, <<g.v>>, TRUE), pos(g.r))
    ELSE IF g.v = ChQuote
    THEN stringToken(readString(txt, g.r), pos(g.r))
    ELSE IF g.v \in {ChLBrace, ChRBrace, ChLBrack, ChRBrack, ChComma, ChColon}
    THEN [r |-> g.r, tok |-> Tok("delim", <<g.v>>, pos(g.r)), err |-> Nil]
    ELSE IF isLower(g.v)
    THEN runToken("res", runLoop(txt, g.r, <<g.v>>, FALSE), pos(g.r))
    ELSE [r |-> g.r, tok |-> NoTok,
          err |-> Err("unexpected character", pos(g.r), <<g.v>>)]

\* The test at the head of reader.token(): the end of the source was seen.
sawEOFNever(R) == FALSE
sawEOF(R) == R.eof

\* reader.token()
token(txt, R) ==
    IF sawEOF(R) THEN [r |-> R, tok |-> NoTok, err |-> EOF]
    ELSE tokenSwitch(txt, skipSpace(txt, R))

(***************************************************************************)
(* One reader over one string literal                                      *)
(***************************************************************************)
MaxUnits == 4
MaxReads == 2

\* The pieces a literal is written from: the escapes \uD834, \uDD1E, A
\* and \n, the letter a, and U+1D11E written raw.
UnitHigh == <<ChBackslash, ChLowerU, 68, 56, 51, 52>>
UnitLow == <<ChBackslash, ChLowerU, 68, 68, 49, ChUpperE>>
UnitBMP == <<ChBackslash, ChLowerU, Ch0, Ch0, 52, 49>>
UnitPlain == <<ChLowerA>>
UnitLF == <<ChBackslash, ChLowerN>>
UnitRaw == <<119070>>
Units == <<UnitHigh, UnitLow, UnitBMP, UnitPlain, UnitLF, UnitRaw>>

RECURSIVE Literal(_)
Literal(us) ==
    IF us = <<>> THEN <<>> ELSE Units[Head(us)] \o Literal(Tail(us))

ReaderInit ==
    /\ tunits \in SeqsUpTo(1..Len(Units), MaxUnits)
    /\ tsrc = <<ChQuote>> \o Literal(tunits) \o <<ChQuote>>
    /\ trd = newReader
    /\ ttoks = <<>>

ReaderIdle ==
    /\ tsrc = <<>>
    /\ tunits = <<>>
    /\ trd = newReader
    /\ ttoks = <<>>

\* One call of reader.token(); the caller keeps what it returned.
Scanned(n) == [tok |-> n.tok, err |-> n.err]

ReaderToken ==
    /\ Len(ttoks) < Len(tunits) + MaxReads
    /\ trd' = token(tsrc, trd).r
    /\ ttoks' = Append(ttoks, Scanned(token(tsrc, trd)))
    /\ UNCHANGED <<tsrc, tunits, notT>>

ReaderNext == ReaderToken

\* The code units the pieces stand for, and where a surrogate stands alone:
\* a high one with no low one right after it, a low one with no high one
\* right before it.
HighUnit == 55348
LowUnit == 56606
IsHighPiece(us, i) == i >= 1 /\ i <= Len(us) /\ us[i] = 1
IsLowPiece(us, i) == i >= 1 /\ i <= Len(us) /\ us[i] = 2

LoneSurrogate(us, i) ==
    \/ IsHighPiece(us, i) /\ ~IsLowPiece(us, i + 1)
    \/ IsLowPiece(us, i) /\ ~IsHighPiece(us, i - 1)

HasLoneSurrogate(us) == \E i \in 1..Len(us) : LoneSurrogate(us, i)

\* C11 as stated: a literal with a high surrogate escape that no low
\* surrogate escape follows, or with a low surrogate escape that no high one
\* precedes, fails with the invalid-surrogate-pair error and yields no string
\* token.
C11_InvalidSurrogateRejected ==
    (Len(ttoks) >= 1 /\ HasLoneSurrogate(tunits))
        => /\ ttoks[1].err.e = "invalid surrogate pair"
           /\ ttoks[1].tok.t = "none"

\* The scalar of a surrogate pair, and the characters a literal stands for
\* when every pair is one character and every other piece is its own.
PairScalar(hi, lo) == 65536 + (hi % 1024) * 1024 + (lo % 1024)

PieceChar(u) ==
    CASE u = 3 -> ChUpperA
      [] u = 4 -> ChLowerA
      [] u = 5 -> ChLF
      [] u = 6 -> 119070
      [] OTHER -> ReplacementChar

RECURSIVE Chars(_)
Chars(us) ==
    IF us = <<>> THEN <<>>
    ELSE IF IsHighPiece(us, 1) /\ IsLowPiece(us, 2)
    THEN <<PairScalar(HighUnit, LowUnit)>> \o Chars(SubSeq(us, 3, Len(us)))
    ELSE <<PieceChar(us[1])>> \o Chars(Tail(us))

\* C12: a high surrogate escape with a low surrogate escape right after it
\* becomes the one character 0x10000 + ((hi & 0x3FF) << 10) + (lo & 0x3FF),
\* and the characters before and after the pair stay where they were.
C12_SurrogatePairCombined ==
    (Len(ttoks) >= 1 /\ ~HasLoneSurrogate(tunits))
        => /\ ttoks[1].err.e = "nil"
           /\ ttoks[1].tok.t = "str"
           /\ ttoks[1].tok.s = Chars(tunits)

C12_Witness ==
    /\ tunits = <<4, 1, 2, 3>>
    /\ Len(ttoks) >= 1
    /\ ttoks[1].tok.t = "str"
    /\ ttoks[1].tok.s = <<ChLowerA, 119070, ChUpperA>>

(***************************************************************************)
(* One reader over a run of lexemes                                        *)
(***************************************************************************)
MaxPieces == 4

\* The lexemes an input is written from: the number 12, the keyword true,
\* the literals "a", "\n\uD834\uDD1E" and one holding U+1D11E raw, a comma,
\* a space, the character $ that starts no token, and a literal "a that
\* never closes.
LexNum == <<49, 50>>
LexRes == <<ChLowerT, ChLowerR, ChLowerU, ChLowerE>>
LexStr == <<ChQuote, ChLowerA, ChQuote>>
LexEsc == <<ChQuote>> \o UnitLF \o UnitHigh \o UnitLow \o <<ChQuote>>
LexRaw == <<ChQuote>> \o UnitRaw \o <<ChQuote>>
LexComma == <<ChComma>>
LexSpace == <<ChSpace>>
LexBad == <<36>>
LexOpen == <<ChQuote, ChLowerA>>
Lexemes == <<LexNum, LexRes, LexStr, LexEsc, LexRaw, LexComma, LexSpace, LexBad, LexOpen>>
LexKinds == <<"num", "res", "str", "str", "str", "delim", "space", "bad", "open">>

\* Two numbers or two keywords side by side would be one token, and a
\* literal that never closes takes in all that follows it: lexemes keep
\* apart, and the open literal comes last.
Apart(ps) ==
    /\ \A j \in 1..(Len(ps) - 1) :
          /\ ~(LexKinds[ps[j]] = "num" /\ LexKinds[ps[j + 1]] = "num")
          /\ ~(LexKinds[ps[j]] = "res" /\ LexKinds[ps[j + 1]] = "res")
          /\ LexKinds[ps[j]] # "open"

RECURSIVE Written(_)
Written(ps) == IF ps = <<>> THEN <<>> ELSE Lexemes[Head(ps)] \o Written(Tail(ps))

ScannerInit ==
    /\ tunits \in {ps \in SeqsUpTo(1..Len(Lexemes), MaxPieces) : Apart(ps)}
    /\ tsrc = Written(tunits)
    /\ trd = newReader
    /\ ttoks = <<>>

\* Where lexeme j starts in the input, counted in characters from zero, and
\* the lexemes that are no whitespace, in order.
LexStart(ps, j) == Len(Written(SubSeq(ps, 1, j - 1)))
Marks(ps) ==
    SelectSeq([j \in 1..Len(ps) |-> j], LAMBDA j : LexKinds[ps[j]] # "space")
IsTokenKind(k) == k \in {"num", "res", "str", "delim"}

\* C25. Token offsets: the k-th token() call meets the k-th lexeme that is
\* no whitespace; when that lexeme is a token, the call returns a token of
\* its kind, and every token returned carries as offset the zero-based
\* index, in characters, of its lexeme's first character, also after a
\* number or keyword whose terminating character was pushed back and after
\* literals with escapes or characters of several bytes.
C25_TokenOffsets ==
    \A k \in 1..Len(ttoks) :
        /\ (k <= Len(Marks(tunits)) /\ IsTokenKind(LexKinds[tunits[Marks(tunits)[k]]]))
              => ttoks[k].tok.t = LexKinds[tunits[Marks(tunits)[k]]]
        /\ ttoks[k].tok.t # "none"
              => /\ k <= Len(Marks(tunits))
                 /\ ttoks[k].tok.p = LexStart(tunits, Marks(tunits)[k])

\* C25 witness: 12,"\n\uD834\uDD1E"true was read to its end: the comma
\* pushed back by the number is at 2, the literal at 3, the keyword at 19.
C25_Witness ==
    /\ tunits = <<1, 6, 4, 2>>
    /\ Len(ttoks) >= 4
    /\ ttoks[1].tok = Tok("num", LexNum, 0)
    /\ ttoks[2].tok = Tok("delim", <<ChComma>>, 2)
    /\ ttoks[3].tok = Tok("str", <<ChLF, 119070>>, 3)
    /\ ttoks[4].tok = Tok("res", LexRes, 19)

\* C30. End of input is sticky: once the reader has seen the end of its
\* source, inside a token or after one, no character is held in the
\* pushback buffer, and every later token() call returns end of input and
\* leaves the reader as it is, the source not being read again.
C30_StickyEOF ==
    [][trd.eof => /\ trd.unr = NoRune
                  /\ trd' = trd
                  /\ ttoks' = Append(ttoks, [tok |-> NoTok, err |-> EOF])]_vars

\* C30 witness: 12 was read to the end of the source inside the number, and
\* two more calls returned end of input with the source read three times.
C30_Witness ==
    /\ tunits = <<1>>
    /\ Len(ttoks) = 3
    /\ ttoks[1].tok = Tok("num", LexNum, 0)
    /\ ttoks[2].err = EOF /\ ttoks[3].err = EOF
    /\ trd.eof /\ trd.calls = 3

(***************************************************************************)
(* The parser: src/unnamed/part_006                                        *)
(***************************************************************************)
\* Nodes are tagged records; the tag k fixes the shape of v.
NumNode(f) == [k |-> "num", v |-> f]
StringNode(str) == [k |-> "str", v |-> str]
BoolNode(b) == [k |-> "bool", v |-> b]
NullNode == [k |-> "null", v |-> 0]
ArrayNode(a) == [k |-> "arr", v |-> a]
ObjectNode(keys, values) == [k |-> "obj", v |-> [keys |-> keys, values |-> values]]
NoNode == [k |-> "none", v |-> 0]

\* Object.Keys(), NumField(), Field(i) (i counts from 0) and FieldByName(f)
\* of the Object the parser builds (src/node.go).
ObjectKeys(o) == o.v.keys
ObjectNumField(o) == Len(o.v.keys)
ObjectField(o, i) ==
    IF i >= Len(o.v.keys) THEN <<"", NoNode>>
    ELSE <<o.v.keys[i + 1], o.v.values[o.v.keys[i + 1]]>>
ObjectFieldByName(o, f) ==
    IF f \in DOMAIN o.v.values THEN o.v.values[f] ELSE NoNode

\* new(big.Float).Parse(str, 10): the whole text has to be
\*   [sign] (digits ["." [digits]] | "." digits) [("e"|"E") [sign] digits]
\* The number is kept as sign, decimal mantissa and decimal exponent, the
\* mantissa without trailing zeros.
IsDigit(c) == c >= Ch0 /\ c <= Ch9

RECURSIVE digitsEnd(_, _)
digitsEnd(str, i) ==
    IF i <= Len(str) /\ IsDigit(str[i]) THEN digitsEnd(str, i + 1) ELSE i

RECURSIVE digitsValue(_, _, _, _)
digitsValue(str, i, j, acc) ==
    IF i >= j THEN acc
    ELSE digitsValue(str, i + 1, j, acc * 10 + (str[i] - Ch0))

RECURSIVE normFloat(_, _, _)
normFloat(neg, m, x) ==
    IF m = 0 THEN [neg |-> neg, m |-> 0, x |-> 0]
    ELSE IF m % 10 = 0 THEN normFloat(neg, m \div 10, x + 1)
    ELSE [neg |-> neg, m |-> m, x |-> x]

\* The steps of the scan: the mantissa's integer digits str[i0..i1-1], its
\* fraction digits str[f0..i2-1], the exponent digits str[e0..i3-1].
floatValue(str, i0, i1, f0, i2, e0, i3) ==
    IF /\ (i1 - i0) + (i2 - f0) >= 1
       /\ e0 > i2 => i3 > e0
       /\ i3 = Len(str) + 1
    THEN [f |-> normFloat(i0 = 2 /\ str[1] = ChMinus,
                          digitsValue(str, f0, i2, digitsValue(str, i0, i1, 0)),
                          (IF e0 = i2 + 2 /\ str[i2 + 1] = ChMinus
                           THEN 0 - digitsValue(str, e0, i3, 0)
                           ELSE digitsValue(str, e0, i3, 0)) - (i2 - f0)),
          err |-> Nil]
    ELSE [f |-> normFloat(FALSE, 0, 0), err |-> Err("number syntax", 0, str)]

floatExpDigits(str, i0, i1, f0, i2, e0) ==
    floatValue(str, i0, i1, f0, i2, e0, IF e0 > i2 THEN digitsEnd(str, e0) ELSE i2)

floatExp(str, i0, i1, f0, i2) ==
    floatExpDigits(str, i0, i1, f0, i2,
        IF ~(i2 <= Len(str) /\ str[i2] \in {ChLowerE, ChUpperE}) THEN i2
        ELSE IF i2 + 1 <= Len(str) /\ str[i2 + 1] \in {ChPlus, ChMinus} THEN i2 + 2
        ELSE i2 + 1)

floatFracDigits(str, i0, i1, f0) == floatExp(str, i0, i1, f0, digitsEnd(str, f0))

floatFrac(str, i0, i1) ==
    floatFracDigits(str, i0, i1,
        IF i1 <= Len(str) /\ str[i1] = ChDot THEN i1 + 1 ELSE i1)

floatMantissa(str, i0) == floatFrac(str, i0, digitsEnd(str, i0))

ParseFloat(str) ==
    floatMantissa(str, IF str # <<>> /\ str[1] \in {ChPlus, ChMinus} THEN 2 ELSE 1)

KwTrue == <<116, 114, 117, 101>>
KwFalse == <<102, 97, 108, 115, 101>>
KwNull == <<110, 117, 108, 108>>

\* The test that ends a list where an element or member may start
\* (parseArray line 28, parseObject line 63): n elements are held so far.
closesListStrict(tok, ch, n) == IsDelim(tok, ch) /\ n = 0
closesList(tok, ch, n) == IsDelim(tok, ch)

\* The test on the token after an element or member (parseArray line 37,
\* parseObject line 89): a comma or the closing delimiter.
endsElementAny(tok, close) == TRUE
endsElement(tok, close) == IsDelim(tok, ChComma) \/ IsDelim(tok, close)

\* `return nil, err`, and a return that hands out an empty array instead.
Recovered(R, err) == [r |-> R, node |-> ArrayNode(<<>>), err |-> Nil]
Fail(R, err) == [r |-> R, node |-> NoNode, err |-> err]

RECURSIVE parse(_, _, _), parseArray(_, _, _, _), parseObject(_, _, _, _, _),
          arrayToken(_, _, _, _), arrayElement(_, _, _),
          objectToken(_, _, _, _, _), objectColon(_, _, _, _, _),
          objectValue(_, _, _, _, _), objectMember(_, _, _, _, _)

\* Parser.parseArray(): the loop, with its locals array and more.
parseArray(txt, R, array, more) == arrayToken(txt, token(txt, R), array, more)

\* The loop body on the token read, t.
arrayToken(txt, t, array, more) ==
    IF t.err.e # "nil" THEN Fail(t.r, t.err)
    ELSE IF more THEN
        IF closesList(t.tok, ChRBrack, Len(array))
        THEN [r |-> t.r, node |-> ArrayNode(array), err |-> Nil]
        ELSE arrayElement(txt, parse(txt, t.r, t.tok), array)
    ELSE
        IF ~endsElement(t.tok, ChRBrack)
        THEN Fail(t.r, Err("unexpected token", t.tok.p, t.tok.s))
        ELSE IF IsDelim(t.tok, ChRBrack)
        THEN [r |-> t.r, node |-> ArrayNode(array), err |-> Nil]
        ELSE parseArray(txt, t.r, array, TRUE)

\* ... on the element parsed, n.
arrayElement(txt, n, array) ==
    IF n.err.e # "nil" THEN Fail(n.r, n.err)
    ELSE parseArray(txt, n.r, Append(array, n.node), FALSE)

\* Parser.parseObject(): the loop, with its locals object and more.
parseObject(txt, R, keys, values, more) ==
    objectToken(txt, token(txt, R), keys, values, more)

\* The loop body on the token read, t.
objectToken(txt, t, keys, values, more) ==
    IF t.err.e # "nil" THEN Fail(t.r, t.err)
    ELSE IF more THEN
        IF t.tok.t = "delim" THEN
            IF closesList(t.tok, ChRBrace, Len(keys))
            THEN [r |-> t.r, node |-> ObjectNode(keys, values), err |-> Nil]
            ELSE Fail(t.r, Err("unexpected delimiter", t.tok.p, t.tok.s))
        ELSE IF t.tok.t # "str"
        THEN Fail(t.r, Err("object key expected", t.tok.p, t.tok.s))
        ELSE objectColon(txt, t.tok.s, token(txt, t.r), keys, values)
    ELSE
        IF ~endsElement(t.tok, ChRBrace)
        THEN Fail(t.r, Err("unexpected token", t.tok.p, t.tok.s))
        ELSE IF IsDelim(t.tok, ChRBrace)
        THEN [r |-> t.r, node |-> ObjectNode(keys, values), err |-> Nil]
        ELSE parseObject(txt, t.r, keys, values, TRUE)

\* ... on the token read after the key, c.
objectColon(txt, key, c, keys, values) ==
    IF c.err.e # "nil" THEN Fail(c.r, c.err)
    ELSE IF ~IsDelim(c.tok, ChColon)
    THEN Fail(c.r, Err("colon expected", c.tok.p, c.tok.s))
    ELSE objectValue(txt, key, token(txt, c.r), keys, values)

\* ... on the token read after the colon, v.
objectValue(txt, key, v, keys, values) ==
    IF v.err.e # "nil" THEN Fail(v.r, v.err)
    ELSE objectMember(txt, key, parse(txt, v.r, v.tok), keys, values)

\* ... on the value parsed, n.
objectMember(txt, key, n, keys, values) ==
    IF n.err.e # "nil" THEN Fail(n.r, n.err)
    ELSE parseObject(txt, n.r, Append(keys, key),
                     [x \in DOMAIN values \cup {key} |->
                         IF x = key THEN n.node ELSE values[x]],
                     FALSE)

\* The tokNum case of Parser.parse on the number parsed, f.
numberNode(R, f) ==
    IF f.err.e # "nil" THEN Fail(R, f.err)
    ELSE [r |-> R, node |-> NumNode(f.f), err |-> Nil]

\* Parser.parse(tok)
parse(txt, R, tok) ==
    CASE tok.t = "str" -> [r |-> R, node |-> StringNode(tok.s), err |-> Nil]
      [] tok.t = "num" -> numberNode(R, ParseFloat(tok.s))
      [] tok.t = "delim" ->
            IF tok.s = <<ChLBrace>> THEN parseObject(txt, R, <<>>, EmptyMap, TRUE)
            ELSE IF tok.s = <<ChLBrack>> THEN parseArray(txt, R, <<>>, TRUE)
            ELSE Fail(R, Err("unexpected delimiter", tok.p, tok.s))
      [] tok.t = "res" ->
            IF tok.s = KwTrue \/ tok.s = KwFalse
            THEN [r |-> R, node |-> BoolNode(tok.s = KwTrue), err |-> Nil]
            ELSE IF tok.s = KwNull
            THEN [r |-> R, node |-> NullNode, err |-> Nil]
            ELSE Fail(R, Err("undefined keyword", tok.p, tok.s))

\* Parser.Parse(): on the token read, t.
parseToken(txt, t) ==
    IF t.err.e # "nil" THEN Fail(t.r, t.err)
    ELSE parse(txt, t.r, t.tok)

Parse(txt, R) == parseToken(txt, token(txt, R))

\* ---- inputs ----
MaxAtoms == 5
MaxDocs == 3

RECURSIVE Concat(_)
Concat(ss) == IF ss = <<>> THEN <<>> ELSE Head(ss) \o Concat(Tail(ss))

TxtKeyA == <<ChQuote, ChLowerA, ChQuote>>

\* Pieces of free text.
Atoms ==
    { <<ChLBrack>>, <<ChRBrack>>, <<ChLBrace>>, <<ChRBrace>>, <<ChComma>>,
      <<ChSpace>>, <<Ch0 + 1>>, TxtKeyA \o <<ChColon>> }

\* Whole values, to be written one after another.
ValueTexts ==
    { <<Ch0 + 1>>,
      <<ChMinus, Ch0 + 1, Ch0 + 2>>,
      TxtKeyA,
      KwTrue,
      KwNull,
      <<ChLBrack, Ch0 + 1, ChComma, ChRBrack>>,
      <<ChLBrack, ChRBrack>>,
      <<ChLBrace>> \o TxtKeyA \o <<ChColon, ChLBrack, Ch0 + 1, ChRBrack, ChRBrace>> }

\* Objects of up to MaxMembers members out of "a":1, "a":[] and "b":1.
MaxMembers == 3
TxtKeyB == <<ChQuote, ChLowerB, ChQuote>>

Member(key, value) ==
    [key |-> key, value |-> value,
     text |-> <<ChQuote>> \o key \o <<ChQuote, ChColon>> \o value]
Members ==
    << Member(<<ChLowerA>>, <<Ch0 + 1>>), Member(<<ChLowerA>>, <<ChLBrack, ChRBrack>>),
       Member(<<ChLowerB>>, <<Ch0 + 1>>) >>
MemberLists == SeqsUpTo(1..Len(Members), MaxMembers)

RECURSIVE MembersText(_)
MembersText(s) ==
    IF s = <<>> THEN <<>>
    ELSE IF Len(s) = 1 THEN Members[s[1]].text
    ELSE Members[s[1]].text \o <<ChComma>> \o MembersText(Tail(s))

ObjectText(s) == <<ChLBrace>> \o MembersText(s) \o <<ChRBrace>>

\* Closed arrays, objects and string literals, and every text that ends
\* before the last character of one of them.
ClosedTexts ==
    { ObjectText(s) : s \in MemberLists }
    \cup { TxtKeyA,
           <<ChLBrack, Ch0 + 1, ChComma, ChRBrack>>,
           <<ChLBrack, ChLBrack, Ch0 + 1, ChRBrack, ChComma>> \o TxtKeyA \o <<ChRBrack>>,
           <<ChLBrace>> \o TxtKeyA \o <<ChColon, ChLBrack, Ch0 + 1, ChRBrack, ChRBrace>> }

TruncatedTexts ==
    UNION { { SubSeq(t, 1, n) : n \in 1..(Len(t) - 1) } : t \in ClosedTexts }

Seps == { <<>>, <<ChSpace>> }

Part(doc, sep) == [doc |-> doc, sep |-> sep]

RECURSIVE Join(_)
Join(parts) ==
    IF parts = <<>> THEN <<>>
    ELSE Head(parts).doc \o Head(parts).sep \o Join(Tail(parts))

\* A Parser over a stream: one free text, one closed or truncated text, or
\* up to MaxDocs values.
Streams ==
    { <<Part(Concat(as), <<>>)>> : as \in SeqsUpTo(Atoms, MaxAtoms) }
    \cup { <<Part(t, <<>>)>> : t \in ClosedTexts \cup TruncatedTexts }
    \cup SeqsUpTo({ Part(d, sp) : d \in ValueTexts, sp \in Seps }, MaxDocs)

\* NewParser(r)
ParserInit ==
    /\ pdocs \in Streams
    /\ psrc = Join(pdocs)
    /\ prd = newReader
    /\ pres = <<>>

ParserIdle ==
    /\ pdocs = <<>>
    /\ psrc = <<>>
    /\ prd = newReader
    /\ pres = <<>>

\* One call of Parser.Parse() by the owner of the Parser.
Returned(n) == [node |-> n.node, err |-> n.err]

ParserParse ==
    /\ Len(pres) <= Len(pdocs)
    /\ prd' = Parse(psrc, prd).r
    /\ pres' = Append(pres, Returned(Parse(psrc, prd)))
    /\ UNCHANGED <<psrc, pdocs, notP>>

ParserNext == ParserParse

\* ---- claims on the parser ----
InsertAt(txt, i, c) == SubSeq(txt, 1, i - 1) \o <<c>> \o SubSeq(txt, i, Len(txt))

\* The last character before position i that is not whitespace (0: none).
RECURSIVE PrevSignificant(_, _)
PrevSignificant(txt, i) ==
    IF i <= 1 THEN 0
    ELSE IF isSpace(txt[i - 1]) THEN PrevSignificant(txt, i - 1)
    ELSE txt[i - 1]

\* Positions of a closing bracket or brace that follows an element or member.
CommaSlots(txt) ==
    { i \in 1..Len(txt) :
        /\ txt[i] \in {ChRBrack, ChRBrace}
        /\ PrevSignificant(txt, i) \notin {0, ChComma, ChLBrack, ChLBrace} }

\* The results of n successive Parse calls on a new Parser over txt.
RECURSIVE ParseCalls(_, _, _)
ParseCalls(txt, R, n) ==
    IF n = 0 THEN <<>>
    ELSE LET r == Parse(txt, R)
         IN <<[node |-> r.node, err |-> r.err]>> \o ParseCalls(txt, r.r, n - 1)

Succeeded(results) ==
    \A j \in 1..Len(results) : results[j].err.e \in {"nil", "EOF"}

\* C9: when the values read so far were read without error, the same calls on
\* the text with one comma inserted directly before a closing ] or } that
\* follows an element or member give the same results, node for node.
C9_TrailingComma ==
    (pres # <<>> /\ Succeeded(pres)) =>
        \A i \in CommaSlots(psrc) :
            ParseCalls(InsertAt(psrc, i, ChComma), newReader, Len(pres)) = pres

\* C9 witness: an object holding a non-empty array was read, so the text has
\* a closing ] and a closing } that each follow an element or member.
C9_Witness ==
    /\ pres # <<>>
    /\ pres[1].err.e = "nil"
    /\ pres[1].node.k = "obj"
    /\ \E key \in DOMAIN pres[1].node.v.values :
          /\ pres[1].node.v.values[key].k = "arr"
          /\ Len(pres[1].node.v.values[key].v) >= 1
    /\ Cardinality(CommaSlots(psrc)) >= 2

\* A text that is one whole value: Parse reads it without error and nothing of
\* it is left.
Solo(doc) == Parse(doc, newReader)
WholeValue(doc) ==
    /\ Solo(doc).err.e = "nil"
    /\ Solo(doc).r.rd = Len(doc)
    /\ Solo(doc).r.unr = NoRune

\* Whether the character c would lengthen the last token of the value doc.
Continues(doc, c) ==
    CASE Solo(doc).node.k = "num" -> isNum(c)
      [] Solo(doc).node.k \in {"bool", "null"} -> isLower(c)
      [] OTHER -> FALSE

Separated(parts) ==
    \A j \in 1..(Len(parts) - 1) :
        parts[j].sep = <<>> => ~Continues(parts[j].doc, parts[j + 1].doc[1])

\* C10: on a stream of k whole values, separated by whitespace where one
\* would run into the next, call j <= k returns value j and call k+1 returns
\* end of input.
C10_OneValuePerCall ==
    ((\A j \in 1..Len(pdocs) : WholeValue(pdocs[j].doc)) /\ Separated(pdocs)) =>
        \A j \in 1..Len(pres) :
            IF j <= Len(pdocs)
            THEN pres[j] = [node |-> Solo(pdocs[j].doc).node, err |-> Nil]
            ELSE pres[j].err.e = "EOF"

\* C10 witness: three values were read and a fourth call met the end of input,
\* the first value a number ended by the first character of the second value.
C10_Witness ==
    /\ Len(pdocs) = 3
    /\ \A j \in 1..3 : WholeValue(pdocs[j].doc)
    /\ Separated(pdocs)
    /\ Len(pres) = 4
    /\ Solo(pdocs[1].doc).node.k = "num"
    /\ pdocs[1].sep = <<>>
    /\ pres[4].err.e = "EOF"

\* C17: when the input ends before the closing delimiter of an array, an
\* object or a string literal (inside a literal, after an opening delimiter,
\* an element, a comma, a key or a colon), Parse fails with the end-of-input
\* error and returns no node, and so does every later call.
Truncated(txt) == txt \in TruncatedTexts

C17_TruncatedInput ==
    Truncated(psrc) =>
        \A j \in 1..Len(pres) : pres[j].err.e = "EOF" /\ pres[j].node.k = "none"

\* C17 witness: the input {"a":1,"b": ended after a colon, two members in.
C17_Witness ==
    /\ psrc = <<ChLBrace>> \o Members[1].text \o <<ChComma>> \o TxtKeyB \o <<ChColon>>
    /\ Truncated(psrc)
    /\ Len(pres) >= 1
    /\ pres[1].err.e = "EOF"

\* The tokens of a text, up to the first that is none.
RECURSIVE Tokens(_, _), TokensFrom(_, _)
Tokens(txt, R) == TokensFrom(txt, token(txt, R))
TokensFrom(txt, t) ==
    IF t.err.e # "nil" THEN <<>> ELSE <<t.tok>> \o Tokens(txt, t.r)

Opens(tok) == IsDelim(tok, ChLBrack) \/ IsDelim(tok, ChLBrace)
Closes(tok) == IsDelim(tok, ChRBrack) \/ IsDelim(tok, ChRBrace)
StartsValue(tok) == tok.t \in {"num", "str", "res"} \/ Opens(tok)
EndsValue(tok) == tok.t \in {"num", "str", "res"} \/ Closes(tok)

\* How many containers are open after the first i tokens.
RECURSIVE OpenDepth(_, _)
OpenDepth(toks, i) ==
    IF i = 0 THEN 0
    ELSE OpenDepth(toks, i - 1) + (IF Opens(toks[i]) THEN 1
                               ELSE IF Closes(toks[i]) THEN 0 - 1 ELSE 0)

\* Token i stands inside the container the first token opens.
Inside(toks, i) == i > 1 /\ \A j \in 1..(i - 1) : OpenDepth(toks, j) >= 1

\* A comma that does not follow a value, or a value that follows a value.
MisplacedAt(toks, i) ==
    /\ Inside(toks, i)
    /\ \/ IsDelim(toks[i], ChComma) /\ ~EndsValue(toks[i - 1])
       \/ StartsValue(toks[i]) /\ EndsValue(toks[i - 1])

MisplacedIn(toks) == \E i \in 1..Len(toks) : MisplacedAt(toks, i)
Misplaced(txt) == MisplacedIn(Tokens(txt, newReader))

SyntaxErrors ==
    {"unexpected token", "unexpected delimiter", "object key expected", "colon expected"}

\* C18: inside an array or object a comma is accepted only directly after a
\* value and two values need a comma between them: a text whose first value
\* holds a comma after an opening delimiter, after another comma or after a
\* colon, or a value directly after a value, makes Parse fail with a syntax
\* error and return no node.
C18_CommaPlacement ==
    (Misplaced(psrc) /\ Len(pres) >= 1) =>
        /\ pres[1].err.e \in SyntaxErrors
        /\ pres[1].node.k = "none"

\* C18 witness: [1,,] was refused.
C18_Witness ==
    /\ psrc = <<ChLBrack, Ch0 + 1, ChComma, ChComma, ChRBrack>>
    /\ Misplaced(psrc)
    /\ Len(pres) >= 1
    /\ pres[1].err.e = "unexpected delimiter"

\* The member list an object text was written from, the keys in the order of
\* their first occurrence and the value the last occurrence of a key has.
IsObjectText(txt) == \E s \in MemberLists : ObjectText(s) = txt
WrittenFrom(txt) == CHOOSE s \in MemberLists : ObjectText(s) = txt

RECURSIVE FirstOccurrences(_)
FirstOccurrences(ks) ==
    IF ks = <<>> THEN <<>>
    ELSE LET front == FirstOccurrences(SubSeq(ks, 1, Len(ks) - 1))
         IN IF InSeq(ks[Len(ks)], front) THEN front ELSE Append(front, ks[Len(ks)])

KeysWritten(s) == [j \in 1..Len(s) |-> Members[s[j]].key]
LastWritten(s, key) ==
    Solo(Members[s[CHOOSE j \in 1..Len(s) :
                        /\ Members[s[j]].key = key
                        /\ \A h \in (j + 1)..Len(s) : Members[s[h]].key # key]].value).node

SameNode(a, b) == a.k = b.k /\ a = b

\* C19 as stated: the Object parsed from an object text, one that repeats a
\* key included, has no duplicate in Keys(), as many fields as the text has
\* distinct keys, each key at the place of its first occurrence, and under
\* every key, by name and by index, the value of its last occurrence.
C19_KeysUnique ==
    (IsObjectText(psrc) /\ Len(pres) >= 1) =>
        /\ pres[1].err.e = "nil"
        /\ pres[1].node.k = "obj"
        /\ ObjectKeys(pres[1].node) = FirstOccurrences(KeysWritten(WrittenFrom(psrc)))
        /\ ObjectNumField(pres[1].node)
              = Cardinality({Members[WrittenFrom(psrc)[j]].key :
                                j \in 1..Len(WrittenFrom(psrc))})
        /\ \A i \in 1..ObjectNumField(pres[1].node) :
              /\ \A j \in 1..ObjectNumField(pres[1].node) :
                    i # j => ObjectKeys(pres[1].node)[i] # ObjectKeys(pres[1].node)[j]
              /\ SameNode(ObjectField(pres[1].node, i - 1)[2],
                          LastWritten(WrittenFrom(psrc), ObjectKeys(pres[1].node)[i]))
              /\ SameNode(ObjectFieldByName(pres[1].node, ObjectKeys(pres[1].node)[i]),
                          LastWritten(WrittenFrom(psrc), ObjectKeys(pres[1].node)[i]))

\* ---- claims on the registries ----
InWrite(p) == rproc[p].pc \in {"w_check", "w_store", "w_unlock"}
InRead(p)  == rproc[p].pc \in {"r_read", "r_unlock"}

\* C6. Registry lookup is safe under concurrency: in every interleaving of
\* registrations and lookups on one registry, no reader is inside its
\* critical section while a writer is inside its own, writers exclude each
\* other, and a lookup's result is absent or a completely registered entry
\* (never a half-written one).
C6_LookupSafe ==
    /\ \A p, q \in Procs : InWrite(p) => (~InRead(q) /\ (InWrite(q) => p = q))
    /\ \A p \in Procs :
         rproc[p].pc \in {"r_unlock", "r_ret"} =>
            \/ rproc[p].res = "absent"
            \/ rproc[p].res # "torn" /\ rproc[p].res = rfirst[rproc[p].key]

\* C6 witness: a lookup of a key waits at RLock while another goroutine is
\* in the middle of storing that very key.
C6_Witness ==
    \E p, q \in Procs :
        /\ rproc[p].pc = "w_store"
        /\ rproc[q].pc = "r_lock"
        /\ rproc[q].key = rproc[p].key

\* C7. Duplicate registration panics and corrupts nothing: the map keeps the
\* first entry stored under a key, a goroutine that panicked holds no lock
\* (the lock is held exactly by a goroutine inside a registration), and a
\* lookup begun after a duplicate registration of its key panicked returns
\* the first registered entry.
C7_DuplicateKeepsFirst ==
    /\ \A key \in DOMAIN rmap : rmap[key] \in {"absent", "torn", rfirst[key]}
    /\ \A p \in Procs : rproc[p].pc = "panicked" => rw.w # p
    /\ (rw.w = 0 <=> ~\E p \in Procs : rproc[p].pc \in {"w_wait", "w_check", "w_store", "w_unlock"})
    /\ (rw.w = 0 <=> ~rw.pending)
    /\ \A p \in Procs :
         (rproc[p].pc = "r_ret" /\ rproc[p].afterdup) =>
            (rproc[p].res = rfirst[rproc[p].key] /\ rproc[p].res # "absent")

\* C7 witness: after a duplicate registration of a key panicked, a lookup of
\* that key has returned the entry registered first, and a goroutine that
\* panicked on a duplicate has not recovered yet while the lock is free.
C7_Witness ==
    \E p, q \in Procs :
        /\ rproc[p].pc = "panicked" /\ rproc[p].val = "duplicate"
        /\ rproc[q].pc = "r_ret" /\ rproc[q].afterdup
        /\ rproc[q].res = rfirst[rproc[q].key]
        /\ rw.w = 0

\* A goroutine waits: for the writers' mutex, for the readers to leave, or
\* for a pending writer. A goroutine holds the lock as a reader or as the
\* writer.
Blocked(p) ==
    \/ rproc[p].pc = "w_lock" /\ ~CanLock
    \/ rproc[p].pc = "w_wait" /\ ~WriterMayEnter
    \/ rproc[p].pc = "r_lock" /\ ~CanRLock
Holds(p) == p \in rw.readers \/ rw.w = p

\* C28. No deadlock through constructors: a goroutine holds the shared lock
\* only between its RLock and its RUnlock, never while it is inside the
\* constructor it looked up, in a nested lookup's wait or in a registration;
\* and whenever a goroutine waits for the lock, some goroutine that holds
\* the lock is free to run, so nested lookups and registrations made by a
\* constructor get the lock, also when another goroutine waits for the
\* exclusive lock.
C28_NoDeadlockThroughConstructors ==
    /\ \A p \in Procs : p \in rw.readers => rproc[p].pc \in {"r_read", "r_unlock"}
    /\ \A p \in Procs :
          Blocked(p) => \E q \in Procs : q # p /\ Holds(q) /\ ~Blocked(q)

\* C28, progress: under RegistryFairness every lookup and every registration
\* that a constructor begins returns to the constructor, enters the
\* constructor it found, or panics as a duplicate.
InsideWaits(p) == rproc[p].depth >= 1 /\ rproc[p].pc \in {"r_lock", "w_lock"}
InsideDone(p) == rproc[p].pc \in {"ctor", "panicked"}
C28_ConstructorsComplete ==
    /\ []C28_NoDeadlockThroughConstructors
    /\ \A p \in Procs : InsideWaits(p) ~> InsideDone(p)

\* C28 witness: a goroutine inside a constructor has begun a nested lookup
\* and waits at RLock while another goroutine, its Lock pending, is about to
\* enter as writer.
C28_Witness ==
    \E p, q \in Procs :
        /\ rproc[p].pc = "r_lock" /\ rproc[p].depth = 1
        /\ rproc[q].pc = "w_wait" /\ rw.pending

(***************************************************************************)
(* The decode engine: src/unnamed/part_000                                 *)
(***************************************************************************)
\* ---- texts: Go strings as sequences of code points ----
TxtA == <<97>>
TxtB == <<98>>
TxtUpperS == <<83>>
TxtE == <<101>>
TxtI == <<105>>
TxtL == <<108>>
TxtM == <<109>>
TxtN == <<110>>
TxtP == <<112>>
TxtX == <<120>>
TxtMid == <<109, 105, 100>>
TxtKind == <<107, 105, 110, 100>>
TxtInt == <<105, 110, 116>>
TxtString == <<115, 116, 114, 105, 110, 103>>
TxtZzz == <<122, 122, 122>>
TxtSnek == <<115, 110, 101, 107>>
TxtPupper == <<112, 117, 112, 112, 101, 114>>
TxtFroggo == <<102, 114, 111, 103, 103, 111>>
Txt12 == <<49, 50>>
TxtBase64 == <<98, 97, 115, 101, 54, 52>>
TxtHex == <<104, 101, 120>>
TxtH == <<104>>
Txt6162 == <<54, 49, 54, 50>>
Txt6g == <<54, 103>>
TxtU == <<117>>
TxtV == <<118>>
TxtW == <<119>>
TxtElemString == <<ChLBrack>> \o TxtString \o <<ChRBrack>>
TxtElemHex == <<ChLBrack>> \o TxtHex \o <<ChRBrack>>

\* The text of each name a struct field of the model can go by.
NameRunes ==
    [a |-> TxtA, e |-> TxtE, h |-> TxtH, i |-> TxtI, l |-> TxtL, m |-> TxtM, n |-> TxtN,
     p |-> TxtP, mid |-> TxtMid, kind |-> TxtKind, int |-> TxtInt,
     string |-> TxtString, u |-> TxtU, v |-> TxtV, w |-> TxtW, x |-> TxtX,
     b |-> TxtB]

\* ---- reflect.Type descriptors beyond IntT, StructT and PtrT ----
StringT == [k |-> "string"]
BoolT == [k |-> "bool"]
Float64T == [k |-> "float64"]
SliceT(t) == [k |-> "slice", elem |-> t]
Uint8T == [k |-> "uint8"]
BytesT == SliceT(Uint8T)
ArrayT(n, t) == [k |-> "array", len |-> n, elem |-> t]
MapT(kt, vt) == [k |-> "map", key |-> kt, elem |-> vt]
IfaceT(id) == [k |-> "iface", id |-> id]
NamedT(id) == [k |-> "named", id |-> id]

nodeType == IfaceT("Node")
emptyType == IfaceT("interface{}")
float64Type == Float64T
stringType == StringT
boolType == BoolT
objectType == MapT(stringType, emptyType)
arrayType == SliceT(emptyType)

\* interface { ImplKind() string } of the examples, and the type Cutie, an
\* int with a DecodeJSON method.
UserType == IfaceT("UserType")
Cutie == NamedT("Cutie")

\* The struct types decoded into. Leaf has a field kept out of JSON, Mid
\* holds a Leaf by value, by pointer, in a slice, in a map and dynamically,
\* Top holds a Mid and embeds a pointer to Leaf; UserTypeInt and UserTypeStr
\* are the implementations of UserType; Box holds an int, a slice of ints, a
\* slice of slices of ints and a slice of strings, each under a bracketed
\* tag option; Pair holds two strings under the tag option x, a name that
\* init() registers no encoding for.
DecodeStructs ==
    [ Leaf |-> << Fld("A", "a", <<>>, FALSE, TRUE, IntT),
                  Fld("S", "-", <<>>, FALSE, TRUE, IntT) >>,
      Mid  |-> << Fld("L", "l", <<>>, FALSE, TRUE, StructT("Leaf")),
                  Fld("P", "p", <<>>, FALSE, TRUE, PtrT(StructT("Leaf"))),
                  Fld("E", "e", <<>>, FALSE, TRUE, SliceT(StructT("Leaf"))),
                  Fld("M", "m", <<>>, FALSE, TRUE, MapT(StringT, StructT("Leaf"))),
                  Fld("I", "i", <<>>, FALSE, TRUE, emptyType),
                  Fld("N", "n", <<TxtString>>, FALSE, TRUE, IntT),
                  Fld("H", "h", <<TxtHex>>, FALSE, TRUE, StringT) >>,
      Top  |-> << Fld("Mid", "mid", <<>>, FALSE, TRUE, StructT("Mid")),
                  Fld("Leaf", "", <<>>, TRUE, TRUE, PtrT(StructT("Leaf"))) >>,
      UserTypeInt |-> << Fld("Kind", "kind", <<>>, FALSE, TRUE, StringT),
                         Fld("Int", "int", <<>>, FALSE, TRUE, IntT) >>,
      UserTypeStr |-> << Fld("Kind", "kind", <<>>, FALSE, TRUE, StringT),
                         Fld("String", "string", <<>>, FALSE, TRUE, StringT) >>,
      Box  |-> << Fld("U", "u", <<TxtElemString>>, FALSE, TRUE, IntT),
                  Fld("V", "v", <<TxtElemString>>, FALSE, TRUE, SliceT(IntT)),
                  Fld("W", "w", <<TxtElemString>>, FALSE, TRUE, SliceT(SliceT(IntT))),
                  Fld("X", "x", <<TxtElemHex>>, FALSE, TRUE, SliceT(StringT)) >>,
      Pair |-> << Fld("A", "a", <<TxtX>>, FALSE, TRUE, StringT),
                  Fld("B", "b", <<TxtX>>, FALSE, TRUE, StringT) >> ]

\* reflect.Type.String(), as far as the errors of the model show it.
TypeName(t) == IF t.k \in {"struct", "iface", "named"} THEN t.id ELSE t.k

\* ---- values ----
IntV(n) == [k |-> "int", v |-> n]
Uint8V(n) == [k |-> "uint8", v |-> n]
StringV(s) == [k |-> "string", v |-> s]
BoolV(b) == [k |-> "bool", v |-> b]
Float64V(f) == [k |-> "float64", v |-> f]
NamedV(id, n) == [k |-> "named", v |-> [id |-> id, n |-> n]]
NilPtr == [k |-> "ptr", v |-> <<>>]
PtrTo(x) == [k |-> "ptr", v |-> <<x>>]
NilSlice == [k |-> "slice", v |-> [nil |-> TRUE, e |-> <<>>]]
SliceV(e) == [k |-> "slice", v |-> [nil |-> FALSE, e |-> e]]
ArrayV(e) == [k |-> "array", v |-> e]
NilMap == [k |-> "map", v |-> [nil |-> TRUE, m |-> EmptyMap]]
MapV(m) == [k |-> "map", v |-> [nil |-> FALSE, m |-> m]]
StructV(id, f) == [k |-> "struct", v |-> [id |-> id, f |-> f]]
NilIface == [k |-> "iface", v |-> <<>>]
IfaceOf(x) == [k |-> "iface", v |-> <<x>>]
NodeV(node) == [k |-> "node", v |-> node]

\* reflect.Zero(t)
RECURSIVE Zero(_)
Zero(t) ==
    CASE t.k = "int" -> IntV(0)
      [] t.k = "uint8" -> Uint8V(0)
      [] t.k = "string" -> StringV(<<>>)
      [] t.k = "bool" -> BoolV(FALSE)
      [] t.k = "float64" -> Float64V(normFloat(FALSE, 0, 0))
      [] t.k = "named" -> NamedV(t.id, 0)
      [] t.k = "ptr" -> NilPtr
      [] t.k = "slice" -> NilSlice
      [] t.k = "array" -> ArrayV([j \in 1..t.len |-> Zero(t.elem)])
      [] t.k = "map" -> NilMap
      [] t.k = "iface" -> NilIface
      [] t.k = "struct" ->
            StructV(t.id, [j \in 1..Len(DecodeStructs[t.id]) |->
                              Zero(DecodeStructs[t.id][j].typ)])

\* ---- nodes ----
\* Num, String, Bool, Null and Array are the parser's; an Object is the list
\* of its fields, type Object []*Field.
Field(key, value) == [Key |-> key, Value |-> value]
Object(fields) == [k |-> "object", v |-> fields]
Num(n) == NumNode(normFloat(n < 0, IF n < 0 THEN 0 - n ELSE n, 0))

\* Object.FieldByName(field): the value of the first field with that key.
RECURSIVE FieldByName(_, _)
FieldByName(o, field) ==
    IF o = <<>> THEN NoNode
    ELSE IF Head(o).Key = field THEN Head(o).Value
    ELSE FieldByName(Tail(o), field)

\* ---- errors ----
DecodeErr(e, what, typ) == [e |-> e, what |-> what, typ |-> typ]
NoErr == DecodeErr("nil", <<>>, "")

\* ---- Context and options ----
NilContext == [nil |-> TRUE, noUnknown |-> FALSE, typeReg |-> "nil", encReg |-> "nil"]
newContext == [nil |-> FALSE, noUnknown |-> FALSE, typeReg |-> "nil", encReg |-> "nil"]

\* new(options)
newOptions == [context |-> NilContext, str |-> FALSE, enc |-> "nil", elem |-> <<>>]

\* options.ctx(): the options after the call; the context it returns is
\* their context field.
ctx(o) == IF o.context.nil THEN [o EXCEPT !.context = newContext] ELSE o

\* The Option functions, as data.
OpString == [op |-> "OpString"]
OpEncoding(e) == [op |-> "OpEncoding", enc |-> e]
OpTypes(r) == [op |-> "OpTypes", reg |-> r]
OpEncodings(r) == [op |-> "OpEncodings", reg |-> r]
OpDisallowUnknownFields == [op |-> "OpDisallowUnknownFields"]
OpElem(ops) == [op |-> "OpElem", ops |-> ops]
OpCtx(c) == [op |-> "OpCtx", ctx |-> c]
opInit(src) == [op |-> "opInit", src |-> src]

\* options.apply(opts), and the call fn(o) of one Option.
RECURSIVE apply(_, _), applyOption(_, _)
apply(o, opts) ==
    IF opts = <<>> THEN o ELSE apply(applyOption(o, Head(opts)), Tail(opts))

applyOption(o, fn) ==
    CASE fn.op = "OpString" -> [o EXCEPT !.str = TRUE]
      [] fn.op = "OpEncoding" -> [o EXCEPT !.enc = fn.enc]
      [] fn.op = "OpTypes" -> [ctx(o) EXCEPT !.context.typeReg = fn.reg]
      [] fn.op = "OpEncodings" -> [ctx(o) EXCEPT !.context.encReg = fn.reg]
      [] fn.op = "OpDisallowUnknownFields" -> [ctx(o) EXCEPT !.context.noUnknown = TRUE]
      [] fn.op = "OpElem" ->
            [o EXCEPT !.elem =
                <<apply(IF o.elem = <<>> THEN newOptions ELSE o.elem[1], fn.ops)>>]
      [] fn.op = "OpCtx" -> [o EXCEPT !.context = fn.ctx]
      [] fn.op = "opInit" -> [fn.src EXCEPT !.elem = <<>>]

\* mkChildOptions(opt, fopt)
mkChildOptionsOwn(opt, fopt) == <<opInit(opt), OpCtx(opt.context)>> \o fopt
mkChildOptionsNoCtx(opt, fopt) ==
    (IF opt.elem # <<>> THEN <<opInit(opt.elem[1])>> ELSE <<>>) \o fopt
mkChildOptions(opt, fopt) ==
    (IF opt.elem # <<>> THEN <<opInit(opt.elem[1])>> ELSE <<>>)
        \o <<OpCtx(opt.context)>> \o fopt

\* ---- the registries a Context can name ----
\* A TypeRegistry maps the name of an interface type to a constructor, an
\* EncodingRegistry the text of a name to an encoding. R0 is a new registry,
\* R1 one on which UserTypeFunc was registered.
TypeRegistries == [R0 |-> EmptyMap, R1 |-> ("UserType" :> "UserTypeFunc")]
EncodingRegistries == [E1 |-> (TxtHex :> "Hex")]

\* defaultEncodingRegistry after init()
defaultEncodingRegistry == (TxtBase64 :> "Base64") @@ (TxtHex :> "Hex")

\* Context.types() and Context.encodings(): the registry given with the
\* options, or "default", the package's registry, on which other goroutines
\* register while a Decode runs.
typesDefault(c) == "default"
types(c) == IF c.typeReg # "nil" THEN c.typeReg ELSE "default"
encodings(c) == IF c.encReg # "nil" THEN c.encReg ELSE "default"

\* `f, ok := r.types[t]` and `e := r.encodings[name]` on a map: the entry,
\* "nil" when there is none.
get(reg, name) == IF name \in DOMAIN reg THEN reg[name] ELSE "nil"

\* TypeRegistry.call up to its RUnlock and EncodingRegistry.get, made when
\* the Decode has read the default registries n times: a registry of the
\* caller's is read as it is; the default registry yields what read n + 1
\* returned, in dseen, and "pending" when that read is still to be made.
typesRead(reg, id, n) ==
    IF reg # "default" THEN get(TypeRegistries[reg], id)
    ELSE IF n < Len(dseen) THEN dseen[n + 1]
    ELSE "pending"
encodingsRead(reg, name, n) ==
    IF reg # "default" THEN get(EncodingRegistries[reg], name)
    ELSE IF n < Len(dseen) THEN dseen[n + 1]
    ELSE "pending"

\* The number of reads of a default registry that a read of reg makes.
Shared(reg) == IF reg = "default" THEN 1 ELSE 0

\* ---- what a decode leaves behind ----
\* A decode returns the value its slot holds afterwards, its error, and a
\* history of the calls it made: each generic decode function ("generic"),
\* DecodeJSON hook ("hook") and registered constructor ("ctor") entered, each
\* object key passed over ("skip") or refused ("undefined"), with the node,
\* the type (or constructor) concerned, the context in force and the route
\* by which the decode was reached; and each read of a default registry
\* ("read"), with what it returned, the node or the tag it was made for and
\* the registry read.
Entry(ev, typ, node, c, via) ==
    [ev |-> ev, typ |-> typ, node |-> node, ctx |-> c, via |-> via]
Done(val, log) == [val |-> val, err |-> NoErr, log |-> log]
Failed(val, err, log) == [val |-> val, err |-> err, log |-> log]
logged(entry, r) == [r EXCEPT !.log = <<entry>> \o @]
after(log, r) == [r EXCEPT !.log = log \o @]

\* The reads of a default registry in a history, and how many they are.
ReadsOf(reg, seen, node, c, via) ==
    IF reg = "default" THEN <<Entry("read", seen, node, c, via)>> ELSE <<>>
Reads(log) == Len(SelectSeq(log, LAMBDA e : e.ev = "read"))

\* A Decode that stands before a read of a default registry: the read it
\* is about to make.
PendingType(cur, id) == Failed(cur, DecodeErr("pending types", <<>>, id), <<>>)
PendingEncoding(cur, name) ==
    Failed(cur, DecodeErr("pending encodings", name, ""), <<>>)
IsPending(r) == r.err.e \in {"pending types", "pending encodings"}

\* ---- Num.Decode ----
RECURSIVE Pow10(_)
Pow10(n) == IF n = 0 THEN 1 ELSE 10 * Pow10(n - 1)

\* big.Float.Int64(): truncation towards zero (the numbers drawn stay far
\* from the ends of the int64 range).
Int64(f) ==
    IF f.x >= 0
    THEN (IF f.neg THEN 0 - f.m * Pow10(f.x) ELSE f.m * Pow10(f.x))
    ELSE (IF f.neg THEN 0 - (f.m \div Pow10(0 - f.x)) ELSE f.m \div Pow10(0 - f.x))

RECURSIVE IntText(_)
IntText(n) == IF n < 10 THEN <<Ch0 + n>> ELSE Append(IntText(n \div 10), Ch0 + (n % 10))

\* big.Float.String(), for numbers of at most ten digits and a decimal
\* exponent from -4 up, which it writes without an exponent.
FracText(ds, n) ==
    IF Len(ds) > n
    THEN SubSeq(ds, 1, Len(ds) - n) \o <<ChDot>> \o SubSeq(ds, Len(ds) - n + 1, Len(ds))
    ELSE <<Ch0, ChDot>> \o [j \in 1..(n - Len(ds)) |-> Ch0] \o ds
FloatText(f) ==
    (IF f.neg THEN <<ChMinus>> ELSE <<>>) \o
    (IF f.x >= 0 THEN IntText(f.m) \o [j \in 1..f.x |-> Ch0]
     ELSE FracText(IntText(f.m), 0 - f.x))

\* big.Float.Uint64(): truncation towards zero, 0 for a negative number.
Uint64(f) == IF f.neg THEN 0 ELSE Int64(f)

NumDecode(n, t, cur) ==
    CASE t.k = "int" -> Done(IntV(Int64(n)), <<>>)
      [] t.k = "uint8" -> Done(Uint8V(Uint64(n) % 256), <<>>)
      [] t.k = "named" -> Done(NamedV(t.id, Int64(n)), <<>>)
      [] t.k = "float64" -> Done(Float64V(n), <<>>)
      [] t.k = "string" -> Done(StringV(FloatText(n)), <<>>)
      [] t.k = "bool" -> Done(BoolV(n.m # 0), <<>>)
      [] OTHER -> Failed(cur, DecodeErr("can't convert number", <<>>, TypeName(t)), <<>>)

\* ---- String.Decode ----
\* hex.Decode
RECURSIVE hexDecode(_, _, _)
hexDecode(s, j, buf) ==
    IF j + 1 > Len(s) THEN
        IF j > Len(s) THEN [buf |-> buf, err |-> NoErr]
        ELSE IF ~IsHexDigit(s[j]) THEN [buf |-> buf, err |-> DecodeErr("hex: invalid byte", <<s[j]>>, "")]
        ELSE [buf |-> buf, err |-> DecodeErr("hex: odd length", <<>>, "")]
    ELSE IF ~IsHexDigit(s[j]) THEN [buf |-> buf, err |-> DecodeErr("hex: invalid byte", <<s[j]>>, "")]
    ELSE IF ~IsHexDigit(s[j + 1]) THEN [buf |-> buf, err |-> DecodeErr("hex: invalid byte", <<s[j + 1]>>, "")]
    ELSE hexDecode(s, j + 2, Append(buf, HexValue(s[j]) * 16 + HexValue(s[j + 1])))

\* base64.StdEncoding: decodeMap[c], 255 for a byte outside the alphabet.
ChPad == 61
ChSlash == 47
ChUpperZ == 90

b64Value(c) ==
    IF c >= ChUpperA /\ c <= ChUpperZ THEN c - ChUpperA
    ELSE IF c >= ChLowerA /\ c <= ChLowerZ THEN c - ChLowerA + 26
    ELSE IF c >= Ch0 /\ c <= Ch9 THEN c - Ch0 + 52
    ELSE IF c = ChPlus THEN 62
    ELSE IF c = ChSlash THEN 63
    ELSE 255

CorruptInputError(at) == DecodeErr("base64: illegal data", <<at>>, "")

\* The end of decodeQuantum: dlen - 1 bytes out of the 6-bit values gathered.
quantumVal(d) ==
    (IF Len(d) >= 1 THEN d[1] * 262144 ELSE 0) + (IF Len(d) >= 2 THEN d[2] * 4096 ELSE 0)
    + (IF Len(d) >= 3 THEN d[3] * 64 ELSE 0) + (IF Len(d) >= 4 THEN d[4] ELSE 0)

quantumBytes(val, dlen) ==
    SubSeq(<<val \div 65536, (val \div 256) % 256, val % 256>>, 1, dlen - 1)

quantum(si, dlen, dbuf, err) ==
    [si |-> si, out |-> quantumBytes(quantumVal(dbuf), dlen), err |-> err]

\* "skip over newlines"
RECURSIVE skipNewlines(_, _)
skipNewlines(src, si) ==
    IF si < Len(src) /\ src[si + 1] \in {ChLF, ChCR}
    THEN skipNewlines(src, si + 1) ELSE si

\* After the padding: anything left is trailing garbage.
padded(src, si, j, dbuf) ==
    quantum(si, j, dbuf, IF si < Len(src) THEN CorruptInputError(si) ELSE NoErr)

\* The second '=' of a quantum whose third place is padding, looked for at si.
secondPad(src, si, dbuf) ==
    IF si = Len(src) THEN [si |-> si, out |-> <<>>, err |-> CorruptInputError(Len(src))]
    ELSE IF src[si + 1] # ChPad
    THEN [si |-> si, out |-> <<>>, err |-> CorruptInputError(si - 1)]
    ELSE padded(src, skipNewlines(src, si + 1), 2, dbuf)

\* Encoding.decodeQuantum(dst, src, si): the loop at place j of the quantum,
\* si bytes of src read, dbuf the values gathered (indexes count from 0 in
\* the source, si + 1 is the next byte here).
RECURSIVE decodeQuantum(_, _, _, _)
decodeQuantum(src, si, j, dbuf) ==
    IF j = 4 THEN quantum(si, 4, dbuf, NoErr)
    ELSE IF si = Len(src) THEN
        IF j = 0 THEN [si |-> si, out |-> <<>>, err |-> NoErr]
        ELSE [si |-> si, out |-> <<>>, err |-> CorruptInputError(si - j)]
    ELSE IF b64Value(src[si + 1]) # 255
    THEN decodeQuantum(src, si + 1, j + 1, Append(dbuf, b64Value(src[si + 1])))
    ELSE IF src[si + 1] \in {ChLF, ChCR} THEN decodeQuantum(src, si + 1, j, dbuf)
    ELSE IF src[si + 1] # ChPad \/ j < 2
    THEN [si |-> si + 1, out |-> <<>>, err |-> CorruptInputError(si)]
    ELSE IF j = 2 THEN secondPad(src, skipNewlines(src, si + 1), dbuf)
    ELSE padded(src, skipNewlines(src, si + 1), 3, dbuf)

\* base64.StdEncoding.Decode(buf, src), then buf[:n]
RECURSIVE base64Decode(_, _, _), base64Quantum(_, _, _)
base64Decode(src, si, buf) ==
    IF si >= Len(src) THEN [buf |-> buf, err |-> NoErr]
    ELSE base64Quantum(src, buf, decodeQuantum(src, si, 0, <<>>))

base64Quantum(src, buf, q) ==
    IF q.err # NoErr THEN [buf |-> buf \o q.out, err |-> q.err]
    ELSE base64Decode(src, q.si, buf \o q.out)

\* []byte(s): the UTF-8 bytes of a text.
utf8Encode(c) ==
    IF c < 128 THEN <<c>>
    ELSE IF c < 2048 THEN <<192 + (c \div 64), 128 + (c % 64)>>
    ELSE IF c < 65536
    THEN <<224 + (c \div 4096), 128 + ((c \div 64) % 64), 128 + (c % 64)>>
    ELSE <<240 + (c \div 262144), 128 + ((c \div 4096) % 64),
           128 + ((c \div 64) % 64), 128 + (c % 64)>>

RECURSIVE bytesOf(_)
bytesOf(s) == IF s = <<>> THEN <<>> ELSE utf8Encode(Head(s)) \o bytesOf(Tail(s))

\* Encoding.Decode(src), for the encodings Base64 and Hex.
EncodingDecode(enc, src) ==
    CASE enc = "Hex" -> hexDecode(src, 1, <<>>)
      [] enc = "Base64" -> base64Decode(src, 0, <<>>)

\* src.Convert(t) of String.Decode, for src the bytes decoded (the texts
\* drawn decode to ASCII bytes, which are their own characters) or the text.
convertBytes(t, buf) ==
    IF t.k = "string" THEN StringV(buf)
    ELSE SliceV([j \in 1..Len(buf) |-> Uint8V(buf[j])])

convertString(t, s) == convertBytes(t, IF t.k = "string" THEN s ELSE bytesOf(s))

encoded(cur, t, d) ==
    IF d.err # NoErr THEN Failed(cur, d.err, <<>>) ELSE Done(convertBytes(t, d.buf), <<>>)

\* `enc := opt.enc`, with or without the Base64 default of a byte slice.
encodingGiven(t, opt) == opt.enc
encodingFor(t, opt) ==
    IF opt.enc = "nil" /\ t.k # "string" /\ ~opt.str THEN "Base64" ELSE opt.enc

isBytes(t) == t.k = "slice" /\ t.elem.k = "uint8"

\* strconv.ParseInt(s, 10, 64), for texts of at most nine digits.
ParseInt(s) ==
    IF s = <<>> \/ (s[1] \in {ChPlus, ChMinus} /\ Len(s) = 1)
       \/ (s[1] \in {ChPlus, ChMinus} /\ digitsEnd(s, 2) # Len(s) + 1)
       \/ (s[1] \notin {ChPlus, ChMinus} /\ digitsEnd(s, 1) # Len(s) + 1)
    THEN [i |-> 0, err |-> DecodeErr("strconv.ParseInt: invalid syntax", s, "")]
    ELSE IF s[1] = ChMinus THEN [i |-> 0 - digitsValue(s, 2, Len(s) + 1, 0), err |-> NoErr]
    ELSE IF s[1] = ChPlus THEN [i |-> digitsValue(s, 2, Len(s) + 1, 0), err |-> NoErr]
    ELSE [i |-> digitsValue(s, 1, Len(s) + 1, 0), err |-> NoErr]

\* strconv.ParseUint(s, 10, 64), for texts of at most nine digits.
ParseUint(s) ==
    IF s = <<>> \/ digitsEnd(s, 1) # Len(s) + 1
    THEN [i |-> 0, err |-> DecodeErr("strconv.ParseUint: invalid syntax", s, "")]
    ELSE [i |-> digitsValue(s, 1, Len(s) + 1, 0), err |-> NoErr]

\* strconv.ParseBool(s)
ParseBool(s) ==
    IF s \in {<<49>>, <<116>>, <<84>>, <<84, 82, 85, 69>>, KwTrue, <<84, 114, 117, 101>>}
    THEN [b |-> TRUE, err |-> NoErr]
    ELSE IF s \in {<<48>>, <<102>>, <<70>>, <<70, 65, 76, 83, 69>>, KwFalse,
                   <<70, 97, 108, 115, 101>>}
    THEN [b |-> FALSE, err |-> NoErr]
    ELSE [b |-> FALSE, err |-> DecodeErr("strconv.ParseBool: invalid syntax", s, "")]

parsedInt(cur, t, p) ==
    IF p.err # NoErr THEN Failed(cur, p.err, <<>>)
    ELSE IF t.k = "named" THEN Done(NamedV(t.id, p.i), <<>>)
    ELSE Done(IntV(p.i), <<>>)

parsedBool(cur, p) ==
    IF p.err # NoErr THEN Failed(cur, p.err, <<>>) ELSE Done(BoolV(p.b), <<>>)

parsedUint(cur, p) ==
    IF p.err # NoErr THEN Failed(cur, p.err, <<>>) ELSE Done(Uint8V(p.i % 256), <<>>)

StringDecode(s, t, cur, opt) ==
    IF t.k = "string" \/ isBytes(t) THEN
        IF encodingFor(t, opt) # "nil"
        THEN encoded(cur, t, EncodingDecode(encodingFor(t, opt), bytesOf(s)))
        ELSE Done(convertString(t, s), <<>>)
    ELSE IF ~opt.str THEN
        Failed(cur, DecodeErr("can't convert string", <<>>, TypeName(t)), <<>>)
    ELSE IF t.k \in {"int", "named"} THEN parsedInt(cur, t, ParseInt(s))
    ELSE IF t.k = "uint8" THEN parsedUint(cur, ParseUint(s))
    ELSE IF t.k = "bool" THEN parsedBool(cur, ParseBool(s))
    ELSE Failed(cur, DecodeErr("can't convert string", <<>>, TypeName(t)), <<>>)

\* ---- Bool.Decode ----
BoolDecode(b, t, cur) ==
    CASE t.k = "bool" -> Done(BoolV(b), <<>>)
      [] t.k = "string" -> Done(StringV(IF b THEN KwTrue ELSE KwFalse), <<>>)
      [] t.k = "int" -> Done(IntV(IF b THEN 1 ELSE 0), <<>>)
      [] t.k = "uint8" -> Done(Uint8V(IF b THEN 1 ELSE 0), <<>>)
      [] t.k = "named" -> Done(NamedV(t.id, IF b THEN 1 ELSE 0), <<>>)
      [] t.k = "float64" -> Done(Float64V(normFloat(FALSE, IF b THEN 1 ELSE 0, 0)), <<>>)
      [] OTHER -> Failed(cur, DecodeErr("can't convert boolean", <<>>, TypeName(t)), <<>>)

\* ---- parseFieldOptions (src/utils.go) ----
tagSkipped(s) == Len(s) = 0 \/ (s[1] = ChLBrack /\ s[Len(s)] # ChRBrack)
tagElem(s) == s[1] = ChLBrack
tagInner(s) == IF s[1] = ChLBrack THEN SubSeq(s, 2, Len(s) - 1) ELSE s

\* Whether parseFieldOptions looks tag s up in the encodings, and the
\* number of reads of the default registry that costs.
tagLooksUp(s) == ~tagSkipped(s) /\ tagInner(s) # TxtString
tagCost(s, opt) ==
    IF tagLooksUp(s) THEN Shared(encodings(ctx(opt).context)) ELSE 0

tagOption(name, opt, n) ==
    IF name = TxtString THEN <<OpString>>
    ELSE IF encodingsRead(encodings(ctx(opt).context), name, n) # "nil"
    THEN <<OpEncoding(encodingsRead(encodings(ctx(opt).context), name, n))>>
    ELSE <<>>

\* The options of the tags with or without brackets, in order; n counts the
\* reads of the default registries made before the tag at the head.
RECURSIVE tagOptions(_, _, _, _)
tagOptions(tags, opt, elem, n) ==
    IF tags = <<>> THEN <<>>
    ELSE IF tagSkipped(Head(tags)) THEN tagOptions(Tail(tags), opt, elem, n)
    ELSE (IF tagElem(Head(tags)) = elem
          THEN tagOption(tagInner(Head(tags)), opt, n) ELSE <<>>)
         \o tagOptions(Tail(tags), opt, elem, n + tagCost(Head(tags), opt))

elemOptions(elemOp) == IF elemOp # <<>> THEN <<OpElem(elemOp)>> ELSE <<>>

parseFieldOptions(tags, opt, n) ==
    tagOptions(tags, opt, FALSE, n) \o elemOptions(tagOptions(tags, opt, TRUE, n))

\* opt after parseFieldOptions(tags, opt): the lookup of an encoding calls
\* opt.ctx().
optAfterTags(tags, opt) ==
    IF \E j \in 1..Len(tags) : ~tagSkipped(tags[j]) /\ tagInner(tags[j]) # TxtString
    THEN ctx(opt) ELSE opt

\* The reads of the default registry parseFieldOptions(tags, opt) makes,
\* the first of them after n earlier reads: the names looked up, how many
\* reads they are, the history they leave, and whether one of them is
\* still to be made.
tagNames(tags) ==
    [j \in 1..Len(SelectSeq(tags, tagLooksUp)) |->
        tagInner(SelectSeq(tags, tagLooksUp)[j])]
tagCount(tags, opt) ==
    Shared(encodings(ctx(opt).context)) * Len(tagNames(tags))
tagsPending(tags, opt, n) == n + tagCount(tags, opt) > Len(dseen)
tagReads(tags, opt, n) ==
    [j \in 1..tagCount(tags, opt) |->
        Entry("read", dseen[n + j], StringNode(tagNames(tags)[j]),
              ctx(opt).context, "tag")]

\* ---- struct fields by index path ----
\* The walk of Object.Decode lines 316-326 along field.Index: FieldAt is the
\* value of dest after it, WithField the struct once dest holds x; a nil
\* pointer on the way is allocated.
RECURSIVE FieldAt(_, _), WithField(_, _, _)
FieldAt(sv, index) ==
    IF Len(index) = 1 THEN sv.v.f[index[1] + 1]
    ELSE IF sv.v.f[index[1] + 1].k # "ptr" THEN FieldAt(sv.v.f[index[1] + 1], Tail(index))
    ELSE IF sv.v.f[index[1] + 1].v = <<>>
    THEN FieldAt(Zero(DecodeStructs[sv.v.id][index[1] + 1].typ.elem), Tail(index))
    ELSE FieldAt(sv.v.f[index[1] + 1].v[1], Tail(index))

WithField(sv, index, x) ==
    IF Len(index) = 1 THEN [sv EXCEPT !.v.f[index[1] + 1] = x]
    ELSE IF sv.v.f[index[1] + 1].k # "ptr"
    THEN [sv EXCEPT !.v.f[index[1] + 1] = WithField(@, Tail(index), x)]
    ELSE IF sv.v.f[index[1] + 1].v = <<>>
    THEN [sv EXCEPT !.v.f[index[1] + 1] =
             PtrTo(WithField(Zero(DecodeStructs[sv.v.id][index[1] + 1].typ.elem),
                             Tail(index), x))]
    ELSE [sv EXCEPT !.v.f[index[1] + 1] = PtrTo(WithField(@.v[1], Tail(index), x))]

\* ---- decodeNode and the decode functions ----
\* The test of the Null special case (decodeNode line 464).
isNullNever(node) == FALSE
isNull(node) == node.k = "null"

\* The test of strict mode (Object.Decode line 311).
unknownFieldIgnored(opt) == FALSE
unknownFieldAlways(opt) == TRUE
unknownField(opt) == ctx(opt).context.noUnknown

\* reflect.PtrTo(t).Implements(decoderType): Cutie has a DecodeJSON method.
ImplementsDecoder(t) == t.k = "named" /\ t.id = "Cutie"

\* Cutie.DecodeJSON(node)
DecodeJSON(node, cur) ==
    IF node.k # "str" THEN Failed(cur, DecodeErr("string expected", <<>>, ""), <<>>)
    ELSE IF node.v = TxtSnek THEN Done(NamedV("Cutie", 0), <<>>)
    ELSE IF node.v = TxtPupper THEN Done(NamedV("Cutie", 1), <<>>)
    ELSE IF node.v = TxtFroggo THEN Done(NamedV("Cutie", 2), <<>>)
    ELSE Failed(cur, DecodeErr("unknown kind of cutie", node.v, ""), <<>>)

\* The default type allocated for a node (decodeNode lines 508-521).
DefaultType(node) ==
    CASE node.k = "num" -> float64Type
      [] node.k = "str" -> stringType
      [] node.k = "object" -> objectType
      [] node.k = "arr" -> arrayType
      [] node.k = "bool" -> boolType

\* dst.CanConvert(t) for an interface type t: t has no method that the
\* default types lack.
CanConvert(t) == t.id = "interface{}"

underPtr(r) == [r EXCEPT !.val = PtrTo(@)]

\* The outcome of a constructor call (decodeNode lines 497-504).
called(cur, entry, r) ==
    IF r.err # NoErr THEN Failed(cur, r.err, <<entry>> \o r.log)
    ELSE Done(IfaceOf(r.val), <<entry>> \o r.log)

\* The outcome of the default type's decode (decodeNode lines 522-529).
synthesized(t, cur, r) ==
    IF r.err # NoErr THEN Failed(cur, r.err, r.log)
    ELSE IF ~CanConvert(t)
    THEN Failed(cur, DecodeErr("can't convert", <<>>, TypeName(t)), r.log)
    ELSE Done(IfaceOf(r.val), r.log)

\* What the constructor returns: dest, err.
userTypeNew(r) == [val |-> PtrTo(r.val), err |-> r.err, log |-> r.log]

\* A slice that is handed the elements decoded before a failure.
slicePartial(cur, r) == [val |-> SliceV(r.val), err |-> r.err, log |-> r.log]

\* out.Set(dst) at the end of the map branch of Object.Decode; mapMerged
\* keeps the entries the destination held.
mapMerged(cur, m, log) == Done(MapV(m @@ cur.v.m), log)
mapDone(cur, m, log) == Done(MapV(m), log)

\* A slice that keeps what it held in front of the elements decoded.
sliceKept(cur, r) ==
    IF r.err # NoErr THEN Failed(cur, r.err, r.log)
    ELSE Done(SliceV(cur.v.e \o r.val), r.log)

sliceDone(cur, r) ==
    IF r.err # NoErr THEN Failed(cur, r.err, r.log) ELSE Done(SliceV(r.val), r.log)
arrayDone(r) == [r EXCEPT !.val = ArrayV(@)]

RECURSIVE decodeNode(_, _, _, _, _, _, _), resolve(_, _, _, _, _, _),
          concrete(_, _, _, _, _, _), userInterface(_, _, _, _, _, _),
          found(_, _, _, _, _, _, _),
          call(_, _, _, _), UserTypeFunc(_, _, _), userTypeKind(_, _, _, _),
          decode(_, _, _, _, _), ArrayDecode(_, _, _, _, _),
          arrayLoop(_, _, _, _, _, _, _), arrayStep(_, _, _, _, _, _, _, _),
          ObjectDecode(_, _, _, _, _),
          structLoop(_, _, _, _, _, _, _, _),
          structField(_, _, _, _, _, _, _, _, _),
          structStep(_, _, _, _, _, _, _, _, _, _),
          mapLoop(_, _, _, _, _, _, _, _), mapKey(_, _, _, _, _, _, _, _, _),
          mapValue(_, _, _, _, _, _, _, _, _, _)

\* decodeNode(v, node, decode, op...): v points to a slot of type t holding
\* cur, unless valid says that v is a nil pointer or no pointer at all (then
\* t is the type of v itself) or the untyped nil (then v has no type: its
\* reflect.Value is the zero Value, of Kind Invalid, and the val.Type() in the
\* arguments of the Errorf panics). In every function of the engine n is
\* the number of reads of the default registries that the outermost Decode
\* has made when the function is entered.
decodeNode(valid, node, t, cur, op, via, n) ==
    IF valid = "untyped"
    THEN Failed(cur, DecodeErr("panic: call of reflect.Value.Type on zero Value",
                               <<>>, ""), <<>>)
    ELSE IF valid = "nonptr"
    THEN Failed(cur, DecodeErr("pointer expected", <<>>, TypeName(t)), <<>>)
    ELSE IF valid = "nilptr"
    THEN Failed(cur, DecodeErr("nil pointer", <<>>, ""), <<>>)
    ELSE IF isNull(node) THEN Done(Zero(t), <<>>)
    ELSE resolve(node, t, cur, apply(newOptions, op), via, n)

\* decodeNode from line 470 on: out is the slot, of type t, holding cur.
resolve(node, t, cur, opt, via, n) ==
    IF t.k = "ptr"
    THEN underPtr(resolve(node, t.elem,
                          IF cur.v = <<>> THEN Zero(t.elem) ELSE cur.v[1], opt, via, n))
    ELSE IF t.k # "iface" THEN concrete(node, t, cur, opt, via, n)
    ELSE IF t = nodeType THEN Done(IfaceOf(NodeV(node)), <<>>)
    ELSE userInterface(node, t, cur, ctx(opt), via, n)

concrete(node, t, cur, opt, via, n) ==
    IF ImplementsDecoder(t)
    THEN logged(Entry("hook", TypeName(t), node, NilContext, via), DecodeJSON(node, cur))
    ELSE logged(Entry("generic", TypeName(t), node, opt.context, via),
                decode(node, t, cur, opt, n))

\* opt.ctx().types().call(out.Type(), node, opt.context): the read of the
\* registry, then what decodeNode does with f.
userInterface(node, t, cur, opt, via, n) ==
    IF typesRead(types(opt.context), t.id, n) = "pending"
    THEN PendingType(cur, t.id)
    ELSE found(node, t, cur, opt, via, n + Shared(types(opt.context)),
               typesRead(types(opt.context), t.id, n))

found(node, t, cur, opt, via, n, f) ==
    after(ReadsOf(types(opt.context), f, node, opt.context, via),
          IF f # "nil"
          THEN called(cur, Entry("ctor", f, node, opt.context, via),
                      call(f, node, opt.context, n))
          ELSE synthesized(t, cur,
                  logged(Entry("generic", TypeName(DefaultType(node)), node,
                               opt.context, via),
                         decode(node, DefaultType(node), Zero(DefaultType(node)),
                                opt, n))))

\* reflect.ValueOf(f).Call(n, ctx) for the registered function f.
call(f, n, c, at) == CASE f = "UserTypeFunc" -> UserTypeFunc(n, c, at)

\* UserTypeFunc of the examples.
UserTypeFunc(n, c, at) ==
    IF n.k # "object"
    THEN Failed(NilIface, DecodeErr("object expected", <<>>, ""), <<>>)
    ELSE IF FieldByName(n.v, TxtKind).k # "str"
    THEN Failed(NilIface, DecodeErr("malformed object", <<>>, ""), <<>>)
    ELSE userTypeKind(n, c, FieldByName(n.v, TxtKind).v, at)

userTypeKind(n, c, kind, at) ==
    IF kind = TxtInt
    THEN userTypeNew(decodeNode("ok", n, StructT("UserTypeInt"),
                                Zero(StructT("UserTypeInt")), <<OpCtx(c)>>, "ctor", at))
    ELSE IF kind = TxtString
    THEN userTypeNew(decodeNode("ok", n, StructT("UserTypeStr"),
                                Zero(StructT("UserTypeStr")), <<OpCtx(c)>>, "ctor", at))
    ELSE Failed(NilIface, DecodeErr("unknown kind", kind, ""), <<>>)

\* The decode function each node type hands to decodeNode; Null hands nil.
decode(node, t, cur, opt, n) ==
    CASE node.k = "num" -> NumDecode(node.v, t, cur)
      [] node.k = "str" -> StringDecode(node.v, t, cur, opt)
      [] node.k = "bool" -> BoolDecode(node.v, t, cur)
      [] node.k = "arr" -> ArrayDecode(node.v, t, cur, opt, n)
      [] node.k = "object" -> ObjectDecode(node.v, t, cur, opt, n)
      [] node.k = "null" ->
            Failed(cur, DecodeErr("panic: nil func call", <<>>, ""), <<>>)

\* ---- Array.Decode ----
ArrayDecode(a, t, cur, opt, n) ==
    CASE t.k = "slice" ->
            sliceDone(cur, arrayLoop(a, 1, t.elem, [j \in 1..Len(a) |-> Zero(t.elem)],
                                     opt, <<>>, n))
      [] t.k = "array" -> arrayDone(arrayLoop(a, 1, t.elem, cur.v, opt, <<>>, n))
      [] OTHER ->
            Failed(cur, DecodeErr("slice or array expected", <<>>, TypeName(t)), <<>>)

\* The loop of lines 376-383, at element i (the source's i + 1) of dst.
arrayLoop(a, i, et, dst, opt, log, n) ==
    IF i > Len(a) \/ i > Len(dst) THEN Done(dst, log)
    ELSE arrayStep(a, i, et, dst, opt, log,
                   decodeNode("ok", a[i], et, dst[i], mkChildOptions(opt, <<>>),
                              "elem", n), n)

arrayStep(a, i, et, dst, opt, log, r, n) ==
    IF r.err # NoErr THEN Failed([dst EXCEPT ![i] = r.val], r.err, log \o r.log)
    ELSE arrayLoop(a, i + 1, et, [dst EXCEPT ![i] = r.val], opt, log \o r.log,
                   n + Reads(r.log))

\* ---- Object.Decode ----
ObjectDecode(o, t, cur, opt, n) ==
    CASE t.k = "struct" ->
            structLoop(o, 1, t, FieldTable(DecodeStructs, t.id), cur, opt, <<>>, n)
      [] t.k = "map" -> mapLoop(o, 1, t, EmptyMap, cur, opt, <<>>, n)
      [] OTHER ->
            Failed(cur, DecodeErr("struct or map expected", <<>>, TypeName(t)), <<>>)

\* The loop of lines 307-331, at field i (the source's i + 1) of the object.
structLoop(o, i, t, table, cur, opt, log, n) ==
    IF i > Len(o) THEN Done(cur, log)
    ELSE IF \A name \in DOMAIN table : NameRunes[name] # o[i].Key THEN
        IF unknownField(opt)
        THEN Failed(cur, DecodeErr("undefined field", o[i].Key, TypeName(t)),
                    Append(log, Entry("undefined", TypeName(t), StringNode(o[i].Key),
                                      ctx(opt).context, "key")))
        ELSE structLoop(o, i + 1, t, table, cur, ctx(opt),
                        Append(log, Entry("skip", TypeName(t), StringNode(o[i].Key),
                                          ctx(opt).context, "key")), n)
    ELSE structField(o, i, t, table, cur, opt, log,
                     table[CHOOSE name \in DOMAIN table : NameRunes[name] = o[i].Key], n)

\* parseFieldOptions(field.Options, opt), whose lookups read the registry
\* of encodings, and the Decode of the element.
structField(o, i, t, table, cur, opt, log, field, n) ==
    IF tagsPending(field.Options, opt, n)
    THEN PendingEncoding(cur, tagNames(field.Options)[Len(dseen) - n + 1])
    ELSE structStep(o, i, t, table, cur, optAfterTags(field.Options, opt),
                    log \o tagReads(field.Options, opt, n), field,
                    decodeNode("ok", o[i].Value, field.Type, FieldAt(cur, field.Index),
                               mkChildOptions(optAfterTags(field.Options, opt),
                                              parseFieldOptions(field.Options, opt, n)),
                               "field", n + tagCount(field.Options, opt)),
                    n + tagCount(field.Options, opt))

structStep(o, i, t, table, cur, opt, log, field, r, n) ==
    IF r.err # NoErr
    THEN Failed(WithField(cur, field.Index, r.val), r.err, log \o r.log)
    ELSE structLoop(o, i + 1, t, table, WithField(cur, field.Index, r.val), opt,
                    log \o r.log, n + Reads(r.log))

\* The loop of lines 336-347, at field i of the object; m is dst.
mapLoop(o, i, t, m, cur, opt, log, n) ==
    IF i > Len(o) THEN mapDone(cur, m, log)
    ELSE mapKey(o, i, t, m, cur, opt, log,
                decodeNode("ok", StringNode(o[i].Key), t.key, Zero(t.key),
                           <<OpString>>, "mapkey", n), n)

mapKey(o, i, t, m, cur, opt, log, kr, n) ==
    IF kr.err # NoErr THEN Failed(cur, kr.err, log \o kr.log)
    ELSE mapValue(o, i, t, m, cur, opt, log \o kr.log, kr.val,
                  decodeNode("ok", o[i].Value, t.elem, Zero(t.elem),
                             mkChildOptions(opt, <<>>), "value", n + Reads(kr.log)),
                  n + Reads(kr.log))

mapValue(o, i, t, m, cur, opt, log, key, vr, n) ==
    IF vr.err # NoErr THEN Failed(cur, vr.err, log \o vr.log)
    ELSE mapLoop(o, i + 1, t, (key :> vr.val) @@ m, cur, opt, log \o vr.log,
                 n + Reads(vr.log))

\* ---- the decodes the checks draw from ----
MaxKeys == 2
MaxElems == 3

LeafV(a, s) == StructV("Leaf", <<IntV(a), IntV(s)>>)
UserIntV(n) == IfaceOf(PtrTo(StructV("UserTypeInt", <<StringV(TxtInt), IntV(n)>>)))

\* A destination is a type and what the slot holds before the decode; a
\* scenario is a node, a destination and what v is.
Dest(t, init) == [t |-> t, init |-> init]
ZeroDest(d) == Dest(d.t, Zero(d.t))
Scenario(node, d, valid) ==
    [node |-> node, type |-> d.t, init |-> d.init, valid |-> valid]

SampleDests ==
    << Dest(IntT, IntV(123)), Dest(StringT, StringV(TxtX)), Dest(BoolT, BoolV(TRUE)),
       Dest(Float64T, Float64V(normFloat(FALSE, 15, 0 - 1))),
       Dest(PtrT(IntT), PtrTo(IntV(120))), Dest(PtrT(PtrT(IntT)), PtrTo(NilPtr)),
       Dest(StructT("Leaf"), LeafV(5, 6)),
       Dest(emptyType, IfaceOf(IntV(7))),
       Dest(nodeType, IfaceOf(NodeV(BoolNode(TRUE)))),
       Dest(UserType, UserIntV(1)),
       Dest(Cutie, NamedV("Cutie", 2)),
       Dest(SliceT(IntT), SliceV(<<IntV(9)>>)),
       Dest(ArrayT(2, IntT), ArrayV(<<IntV(1), IntV(2)>>)),
       Dest(MapT(StringT, IntT), MapV(StringV(TxtA) :> IntV(1))),
       Dest(StructT("UserTypeInt"), StructV("UserTypeInt", <<StringV(TxtInt), IntV(1)>>)) >>

SimpleNodes ==
    << Num(1), NumNode(normFloat(TRUE, 15, 0 - 1)), StringNode(TxtX), StringNode(Txt12),
       StringNode(TxtSnek), BoolNode(TRUE), NullNode,
       ArrayNode(<<Num(1), NullNode, StringNode(Txt12)>>),
       Object(<<Field(TxtA, Num(1))>>) >>

\* Simple node n into destination d: through a pointer to the sample value
\* or to a zero value, through a nil pointer, or passing the value itself.
\* v is an interface{}: a value of interface type handed over as it is
\* arrives as the value it holds (a UserType holding a *UserTypeInt is the
\* pointer to the UserTypeInt, a nil one is the untyped nil), so what is
\* passed by value is never of interface kind.
CrossScenario(n, d, how) ==
    CASE how = "sample" -> Scenario(SimpleNodes[n], SampleDests[d], "ok")
      [] how = "zero" -> Scenario(SimpleNodes[n], ZeroDest(SampleDests[d]), "ok")
      [] how = "nilptr" -> Scenario(SimpleNodes[n], ZeroDest(SampleDests[d]), "nilptr")
      [] how = "nonptr" -> Scenario(SimpleNodes[n], SampleDests[d], "nonptr")
      [] how = "untyped" -> Scenario(SimpleNodes[n], SampleDests[d], "untyped")

\* Objects for Leaf: up to MaxKeys fields out of a matched key with a good,
\* a bad and a null value, an unknown key, and the name of the field kept
\* out of JSON.
LeafFields ==
    << Field(TxtA, Num(1)), Field(TxtA, StringNode(TxtX)), Field(TxtA, NullNode),
       Field(TxtB, Num(2)), Field(TxtUpperS, Num(3)) >>
LeafObject(s) == Object([j \in 1..Len(s) |-> LeafFields[s[j]]])
LeafDests ==
    << Dest(StructT("Leaf"), LeafV(5, 6)), Dest(StructT("Leaf"), LeafV(0, 0)),
       Dest(PtrT(StructT("Leaf")), NilPtr) >>

\* A Mid and a Top that hold something in every field, and their zero values.
MidV ==
    StructV("Mid", << LeafV(5, 6), PtrTo(LeafV(1, 2)), SliceV(<<LeafV(3, 4)>>),
                      MapV(StringV(TxtX) :> LeafV(1, 1)), IfaceOf(IntV(7)), IntV(3),
                      StringV(TxtX) >>)
TopV == StructV("Top", <<MidV, PtrTo(LeafV(5, 6))>>)
MidDests == << Dest(StructT("Mid"), Zero(StructT("Mid"))), Dest(StructT("Mid"), MidV) >>
TopDests == << Dest(StructT("Top"), Zero(StructT("Top"))), Dest(StructT("Top"), TopV) >>

\* Objects for Mid: a Leaf object under one of its fields, or one of its
\* tagged fields.
MidObject(w, lo) ==
    CASE w = 1 -> Object(<<Field(TxtL, lo)>>)
      [] w = 2 -> Object(<<Field(TxtP, lo)>>)
      [] w = 3 -> Object(<<Field(TxtE, ArrayNode(<<lo>>))>>)
      [] w = 4 -> Object(<<Field(TxtM, Object(<<Field(TxtX, lo)>>))>>)
      [] w = 5 -> Object(<<Field(TxtI, lo)>>)
      [] w = 6 -> Object(<<Field(TxtI, ArrayNode(<<lo>>))>>)
MidTagged ==
    << Object(<<Field(TxtN, StringNode(Txt12))>>), Object(<<Field(TxtN, Num(1))>>),
       Object(<<Field(TxtN, StringNode(TxtX))>>),
       Object(<<Field(TxtH, StringNode(Txt6162))>>),
       Object(<<Field(TxtH, StringNode(Txt6g))>>),
       Object(<<Field(TxtB, Num(2)), Field(TxtN, StringNode(Txt12))>>) >>

\* Objects for Top: a Mid object, or the fields of the embedded Leaf.
TopObject(w, lo) ==
    IF w <= 6 THEN Object(<<Field(TxtMid, MidObject(w, lo))>>)
    ELSE Object(<<Field(TxtMid, Object(<<>>))>> \o lo.v)

\* Arrays for slices of interfaces: up to MaxElems elements out of null, the
\* two kinds UserTypeFunc knows, two nodes it refuses and an object with an
\* unknown key.
UserElems ==
    << NullNode,
       Object(<<Field(TxtKind, StringNode(TxtInt)), Field(TxtInt, Num(1))>>),
       Object(<<Field(TxtKind, StringNode(TxtString)),
                Field(TxtString, StringNode(TxtX))>>),
       Object(<<Field(TxtKind, StringNode(TxtZzz))>>),
       StringNode(TxtX),
       Object(<<Field(TxtKind, StringNode(TxtInt)), Field(TxtInt, Num(1)),
                Field(TxtB, Num(2))>>) >>
UserArray(s) == ArrayNode([j \in 1..Len(s) |-> UserElems[s[j]]])
UserDests ==
    << Dest(SliceT(UserType), SliceV(<<UserIntV(7)>>)),
       Dest(SliceT(emptyType), NilSlice),
       Dest(ArrayT(2, UserType), ArrayV(<<NilIface, UserIntV(7)>>)) >>

\* The options of the outermost call.
OptionLists ==
    << <<>>,
       <<OpDisallowUnknownFields>>,
       <<OpTypes("R1")>>,
       <<OpTypes("R0")>>,
       <<OpDisallowUnknownFields, OpTypes("R1"), OpEncodings("E1")>>,
       <<OpTypes("R1"), OpElem(<<OpDisallowUnknownFields>>)>>,
       <<OpElem(<<OpString>>)>> >>

\* Arrays of plain elements, up to MaxElems out of 1, null, "12" and "x",
\* into slices and fixed-size arrays of integers that hold something, and
\* into destinations that are no sequence.
ShapeElems == << Num(1), NullNode, StringNode(Txt12), StringNode(TxtX) >>
ShapeArray(s) == ArrayNode([j \in 1..Len(s) |-> ShapeElems[s[j]]])
ShapeDests ==
    << Dest(SliceT(IntT), SliceV(<<IntV(7), IntV(8), IntV(9), IntV(10)>>)),
       Dest(SliceT(IntT), NilSlice),
       Dest(ArrayT(2, IntT), ArrayV(<<IntV(7), IntV(8)>>)),
       Dest(ArrayT(4, IntT), ArrayV(<<IntV(7), IntV(8), IntV(9), IntV(10)>>)),
       Dest(PtrT(SliceT(IntT)), NilPtr),
       Dest(IntT, IntV(7)),
       Dest(MapT(StringT, IntT), NilMap),
       Dest(StructT("Leaf"), LeafV(5, 6)) >>

\* Objects for maps, up to MaxKeys fields out of the keys "12" (twice), "a"
\* and "b", the last with a value that is no number, into maps keyed by
\* integers and by strings.
KeyedFields ==
    << Field(Txt12, Num(1)), Field(TxtA, Num(2)), Field(Txt12, Num(3)),
       Field(TxtB, StringNode(TxtX)) >>
KeyedObject(s) == Object([j \in 1..Len(s) |-> KeyedFields[s[j]]])
KeyedDests ==
    << Dest(MapT(IntT, IntT), NilMap), Dest(MapT(IntT, IntT), MapV(IntV(5) :> IntV(5))),
       Dest(MapT(StringT, IntT), MapV(StringV(TxtX) :> IntV(5))) >>

\* Texts for byte slices and strings: "YWFh", "YWE=", "YQ==" and "" (the
\* Base64 of aaa, aa, a and nothing), "YWFh" with a line feed after it,
\* "616161" and "61" (the hex of aaa and a), and the malformed "YWF",
\* "Y!Fh", "YQ=a", "YQ==a", "6g", "616" and a letter outside ASCII.
EncodedTexts ==
    << <<89, 87, 70, 104>>, <<89, 87, 69, 61>>, <<89, 81, 61, 61>>, <<>>,
       <<89, 87, 70, 104, 10>>,
       <<54, 49, 54, 49, 54, 49>>, <<54, 49>>,
       <<89, 87, 70>>, <<89, 33, 70, 104>>, <<89, 81, 61, 97>>, <<89, 81, 61, 61, 97>>,
       Txt6g, <<54, 49, 54>>, <<233>> >>

TextDests ==
    << Dest(BytesT, NilSlice), Dest(BytesT, SliceV(<<Uint8V(1), Uint8V(2)>>)),
       Dest(StringT, StringV(TxtX)) >>

TextOptionLists ==
    << <<>>, <<OpString>>, <<OpEncoding("Hex")>>, <<OpEncoding("Base64")>>,
       <<OpString, OpEncoding("Hex")>>, <<OpEncoding("Base64"), OpString>> >>

\* Texts for integers and booleans: "12", "255", "256", "300", "-1", "+5",
\* "1x" and "", then "true", "false", "True", "TRUE", "t", "1", "0" and "F",
\* into an int, an 8-bit unsigned integer and a bool that hold something.
ScalarTexts ==
    << Txt12, <<50, 53, 53>>, <<50, 53, 54>>, <<51, 48, 48>>, <<45, 49>>, <<43, 53>>,
       <<49, 120>>, <<>>,
       KwTrue, KwFalse, <<84, 114, 117, 101>>, <<84, 82, 85, 69>>, <<116>>, <<49>>,
       <<48>>, <<70>> >>

ScalarDests ==
    << Dest(IntT, IntV(7)), Dest(Uint8T, Uint8V(7)), Dest(BoolT, BoolV(TRUE)),
       Dest(BoolT, BoolV(FALSE)) >>

ScalarOptionLists == << <<>>, <<OpString>> >>

\* Containers around one String leaf, the text 12 for an int or 6162 for a
\* string: the leaf alone, in an array, in an array of arrays, in an object
\* for a map, in an object of arrays, and under the fields of Box. where
\* tells how the leaf lies: it is the node decoded ("top0"), a direct
\* element of it ("top1") or an element of a nested container ("top2"); or
\* it is the field of Box that carries the bracketed tag option ("tag0"), a
\* direct element of that field ("tag1") or nested one level deeper ("tag2").
Nest(node, t, where, leaf) == [node |-> node, t |-> t, where |-> where, leaf |-> leaf]
Nests ==
    << Nest(StringNode(Txt12), IntT, "top0", "int"),
       Nest(ArrayNode(<<StringNode(Txt12)>>), SliceT(IntT), "top1", "int"),
       Nest(ArrayNode(<<ArrayNode(<<StringNode(Txt12)>>)>>), SliceT(SliceT(IntT)),
            "top2", "int"),
       Nest(Object(<<Field(TxtA, StringNode(Txt12))>>), MapT(StringT, IntT),
            "top1", "int"),
       Nest(Object(<<Field(TxtA, ArrayNode(<<StringNode(Txt12)>>))>>),
            MapT(StringT, SliceT(IntT)), "top2", "int"),
       Nest(StringNode(Txt6162), StringT, "top0", "string"),
       Nest(ArrayNode(<<StringNode(Txt6162)>>), SliceT(StringT), "top1", "string"),
       Nest(ArrayNode(<<ArrayNode(<<StringNode(Txt6162)>>)>>), SliceT(SliceT(StringT)),
            "top2", "string"),
       Nest(Object(<<Field(TxtU, StringNode(Txt12))>>), StructT("Box"), "tag0", "int"),
       Nest(Object(<<Field(TxtV, ArrayNode(<<StringNode(Txt12)>>))>>), StructT("Box"),
            "tag1", "int"),
       Nest(Object(<<Field(TxtW, ArrayNode(<<ArrayNode(<<StringNode(Txt12)>>)>>))>>),
            StructT("Box"), "tag2", "int"),
       Nest(Object(<<Field(TxtX, ArrayNode(<<StringNode(Txt6162)>>))>>), StructT("Box"),
            "tag1", "string") >>

NestOptionLists ==
    << <<>>, <<OpString>>, <<OpEncoding("Hex")>>,
       <<OpElem(<<OpString>>)>>, <<OpElem(<<OpEncoding("Hex")>>)>>,
       <<OpElem(<<OpString>>), OpElem(<<OpEncoding("Hex")>>)>>,
       <<OpString, OpElem(<<OpEncoding("Hex")>>)>>,
       <<OpElem(<<OpElem(<<OpString>>)>>)>> >>

\* Objects for a Pair: up to MaxKeys fields out of a and b, each the text
\* 6162, the hex of ab.
PairFields == << Field(TxtA, StringNode(Txt6162)), Field(TxtB, StringNode(Txt6162)) >>
PairObject(s) == Object([j \in 1..Len(s) |-> PairFields[s[j]]])
PairOptionLists == << <<>>, <<OpEncodings("E1")>> >>

\* defaultTypeRegistry: as the package starts, or after RegisterType(UserTypeFunc).
DefaultRegistries == {EmptyMap, "UserType" :> "UserTypeFunc"}

\* What another goroutine may register on the default registries while the
\* Decode runs: the constructor of UserType, and Hex under the name x.
RegisteredTypes == {[out |-> "UserType", id |-> "UserTypeFunc"]}
RegisteredEncodings == {[name |-> TxtX, enc |-> "Hex"]}

Drawn(sc) ==
    /\ dnode = sc.node
    /\ dtype = sc.type
    /\ dinit = sc.init
    /\ dvalid = sc.valid
    /\ dres = Done(sc.init, <<>>)

DrawnTree ==
       \/ \E n \in 1..Len(SimpleNodes), d \in 1..Len(SampleDests),
            how \in {"sample", "zero", "nilptr", "nonptr", "untyped"} :
              /\ how = "nonptr" => SampleDests[d].t.k \notin {"ptr", "iface"}
              /\ how = "untyped" => d = 1
              /\ Drawn(CrossScenario(n, d, how))
       \/ \E s \in SeqsUpTo(1..Len(LeafFields), MaxKeys), d \in 1..Len(LeafDests) :
              Drawn(Scenario(LeafObject(s), LeafDests[d], "ok"))
       \/ \E s \in SeqsUpTo(1..Len(LeafFields), MaxKeys), w \in 1..6,
               d \in 1..Len(MidDests) :
              Drawn(Scenario(MidObject(w, LeafObject(s)), MidDests[d], "ok"))
       \/ \E w \in 1..Len(MidTagged), d \in 1..Len(MidDests) :
              Drawn(Scenario(MidTagged[w], MidDests[d], "ok"))
       \/ \E s \in SeqsUpTo(1..Len(LeafFields), MaxKeys), w \in 1..7,
               d \in 1..Len(TopDests) :
              Drawn(Scenario(TopObject(w, LeafObject(s)), TopDests[d], "ok"))
       \/ \E s \in SeqsUpTo(1..Len(UserElems), MaxElems), d \in 1..Len(UserDests) :
              Drawn(Scenario(UserArray(s), UserDests[d], "ok"))
       \/ \E s \in SeqsUpTo(1..Len(KeyedFields), MaxKeys), d \in 1..Len(KeyedDests) :
              Drawn(Scenario(KeyedObject(s), KeyedDests[d], "ok"))
       \/ \E s \in SeqsUpTo(1..Len(ShapeElems), MaxElems), d \in 1..Len(ShapeDests) :
              Drawn(Scenario(ShapeArray(s), ShapeDests[d], "ok"))

DrawnText ==
    \E n \in 1..Len(EncodedTexts), d \in 1..Len(TextDests) :
        Drawn(Scenario(StringNode(EncodedTexts[n]), TextDests[d], "ok"))

DrawnScalar ==
    \E n \in 1..Len(ScalarTexts), d \in 1..Len(ScalarDests) :
        Drawn(Scenario(StringNode(ScalarTexts[n]), ScalarDests[d], "ok"))

DrawnNest ==
    \E n \in 1..Len(Nests) :
        Drawn(Scenario(Nests[n].node, Dest(Nests[n].t, Zero(Nests[n].t)), "ok"))

DrawnPair ==
    \E s \in SeqsUpTo(1..Len(PairFields), MaxKeys) :
        Drawn(Scenario(PairObject(s), Dest(StructT("Pair"), Zero(StructT("Pair"))), "ok"))

DecodeInit ==
    /\ \/ DrawnTree /\ \E i \in 1..Len(OptionLists) : dops = OptionLists[i]
       \/ DrawnText /\ \E i \in 1..Len(TextOptionLists) : dops = TextOptionLists[i]
       \/ DrawnScalar /\ \E i \in 1..Len(ScalarOptionLists) :
                            dops = ScalarOptionLists[i]
       \/ DrawnNest /\ \E i \in 1..Len(NestOptionLists) : dops = NestOptionLists[i]
       \/ DrawnPair /\ \E i \in 1..Len(PairOptionLists) : dops = PairOptionLists[i]
    /\ dreg \in DefaultRegistries
    /\ denc = defaultEncodingRegistry
    /\ dseen = <<>>
    /\ dpc = "ready"

DecodeIdle ==
    /\ dnode = NullNode
    /\ dtype = IntT
    /\ dinit = IntV(0)
    /\ dvalid = "ok"
    /\ dops = <<>>
    /\ dreg = EmptyMap
    /\ denc = defaultEncodingRegistry
    /\ dseen = <<>>
    /\ dres = Done(IntV(0), <<>>)
    /\ dpc = "off"

\* node.Decode(v, op...) as far as it gets on the reads of the default
\* registries made so far: to its return, or to its next read. In the
\* actions r is how far it gets in the state they are taken in.
Run == decodeNode(dvalid, dnode, dtype, dinit, dops, "top", 0)
Decoding == dpc \in {"ready", "running"}

\* The read Decode stands before, made on the registry as it is now.
readNow(err) ==
    IF err.e = "pending types" THEN get(dreg, err.typ) ELSE get(denc, err.what)

\* Decode reaches TypeRegistry.call or EncodingRegistry.get on a default
\* registry: RLock, the read of the map, RUnlock.
DecodeRead(r) ==
    /\ IsPending(r)
    /\ dseen' = Append(dseen, readNow(r.err))
    /\ dpc' = "running"
    /\ UNCHANGED <<dnode, dtype, dinit, dvalid, dops, dreg, denc, dres, notD>>

\* node.Decode(v, op...) returns: every read it needed is made.
NodeDecode(r) ==
    /\ ~IsPending(r)
    /\ dpc' = "done"
    /\ dres' = r
    /\ UNCHANGED <<dnode, dtype, dinit, dvalid, dops, dreg, denc, dseen, notD>>

\* Another goroutine calls RegisterType(fn) while the Decode runs; for a
\* type already registered it panics and the registry stays as it is. A
\* registration shows to the Decode in its next read only, so the ones
\* made right before a read stand for all.
RegisterType(fn, r) ==
    /\ IsPending(r)
    /\ fn.out \notin DOMAIN dreg
    /\ dreg' = (fn.out :> fn.id) @@ dreg
    /\ UNCHANGED <<dnode, dtype, dinit, dvalid, dops, denc, dseen, dpc, dres, notD>>

\* Another goroutine calls RegisterEncoding(name, enc) while the Decode
\* runs; for a name already registered it panics.
RegisterEncoding(name, enc, r) ==
    /\ IsPending(r)
    /\ name \notin DOMAIN denc
    /\ denc' = (name :> enc) @@ denc
    /\ UNCHANGED <<dnode, dtype, dinit, dvalid, dops, dreg, dseen, dpc, dres, notD>>

DecodeStep(r) ==
    \/ DecodeRead(r)
    \/ NodeDecode(r)
    \/ \E fn \in RegisteredTypes : RegisterType(fn, r)
    \/ \E e \in RegisteredEncodings : RegisterEncoding(e.name, e.enc, r)

DecodeNext == Decoding /\ \E r \in {Run} : DecodeStep(r)

(***************************************************************************)
(* The encoding/json compatibility layer: src/unnamed/part_005             *)
(***************************************************************************)
MaxStrict == 1

\* The Object the parser builds, as Object.Decode walks it: NumField()
\* fields, field i being Field(i), the key at i with the value the object
\* holds under that key; and so in every node below.
RECURSIVE objectFields(_)
objectFields(node) ==
    CASE node.k = "obj" ->
            Object([i \in 1..ObjectNumField(node) |->
                       Field(ObjectField(node, i - 1)[1],
                             objectFields(ObjectField(node, i - 1)[2]))])
      [] node.k = "arr" -> ArrayNode([i \in 1..Len(node.v) |-> objectFields(node.v[i])])
      [] OTHER -> node

\* The values a stream for a Decoder is written from: 1, "6162", [1,2],
\* {"a":1}, {"b":1}, {"a":1,"b":1}, {"a":"6162","b":"6162"}, and {"a": which
\* breaks off.
TxtQ6162 == <<ChQuote>> \o Txt6162 \o <<ChQuote>>
DecoderTexts ==
    { <<Ch0 + 1>>,
      TxtQ6162,
      <<ChLBrack, Ch0 + 1, ChComma, Ch0 + 2, ChRBrack>>,
      ObjectText(<<1>>), ObjectText(<<3>>), ObjectText(<<1, 3>>),
      <<ChLBrace>> \o TxtKeyA \o <<ChColon>> \o TxtQ6162 \o <<ChComma>>
          \o TxtKeyB \o <<ChColon>> \o TxtQ6162 \o <<ChRBrace>>,
      <<ChLBrace>> \o TxtKeyA \o <<ChColon>> }
DecoderStreams ==
    SeqsUpTo({ Part(d, sep) : d \in DecoderTexts, sep \in {<<>>, <<ChSpace>>} },
             MaxDocs - 1) \ {<<>>}

\* The variable v that every Decode of the stream is handed a pointer to.
DecoderDests ==
    << Dest(IntT, IntV(0)), Dest(StructT("Leaf"), LeafV(5, 6)),
       Dest(StructT("Pair"), Zero(StructT("Pair"))),
       Dest(SliceT(IntT), NilSlice), Dest(emptyType, NilIface) >>

\* NewDecoder(r), or the data Unmarshal will be called with: nothing is
\* parsed, the Decoder has no option, v holds what it was declared with.
DecoderInit ==
    /\ pdocs \in DecoderStreams
    /\ psrc = Join(pdocs)
    /\ prd = newReader
    /\ pres = <<>>
    /\ \E d \in 1..Len(DecoderDests) :
          /\ dtype = DecoderDests[d].t
          /\ dinit = DecoderDests[d].init
          /\ dres = Done(DecoderDests[d].init, <<>>)
    /\ dnode = NullNode
    /\ dvalid = "ok"
    /\ dops = <<>>
    /\ dreg \in DefaultRegistries
    /\ denc = defaultEncodingRegistry
    /\ dseen = <<>>
    /\ dpc = "idle"

\* What a call has the parser return, and the function that made the call.
Called(n, by) == [node |-> n.node, err |-> n.err, by |-> by]
Resting == dpc \in {"idle", "done"}
IsDecoder == \A j \in 1..Len(pres) : pres[j].by = "Decoder"

\* `n, err := p.Parse()` of Decoder.Decode and of Unmarshal, and the
\* return of the parser's error; with a node parsed, n.Decode(v, opt...)
\* follows, in the steps of DecodeNext. v holds what the last call left.
parsed(n, by) ==
    /\ prd' = n.r
    /\ pres' = Append(pres, Called(n, by))
    /\ dinit' = dres.val
    /\ dseen' = <<>>
    /\ IF n.err # Nil
       THEN /\ dpc' = "done"
            /\ dres' = Failed(dres.val, n.err, <<>>)
            /\ dnode' = dnode
       ELSE /\ dpc' = "ready"
            /\ dres' = Done(dres.val, <<>>)
            /\ dnode' = objectFields(n.node)
    /\ UNCHANGED <<psrc, pdocs, dtype, dvalid, dops, dreg, denc, fvars, rvars, tvars>>

\* Decoder.Decode(v), by the owner of the Decoder.
DecoderDecode ==
    /\ Resting
    /\ IsDecoder
    /\ Len(pres) <= Len(pdocs)
    /\ parsed(Parse(psrc, prd), "Decoder")

\* Unmarshal(data, v): a new Parser over data, one Parse, n.Decode(v).
Unmarshal ==
    /\ dpc = "idle"
    /\ pres = <<>>
    /\ dops = <<>>
    /\ parsed(Parse(psrc, newReader), "Unmarshal")

\* Decoder.DisallowUnknownFields()
DisallowUnknownFields ==
    /\ Resting
    /\ IsDecoder
    /\ Len(dops) < MaxStrict
    /\ dops' = Append(dops, OpDisallowUnknownFields)
    /\ UNCHANGED <<dnode, dtype, dinit, dvalid, dreg, denc, dseen, dpc, dres,
                   pvars, fvars, rvars, tvars>>

DecoderNext ==
    \/ DecoderDecode
    \/ Unmarshal
    \/ DisallowUnknownFields
    \/ DecodeNext

\* ---- claims on the decode engine ----
\* The context of the outermost call once its options are applied, the flag
\* and registries a context stands for, and the context a nested call or a
\* constructor is handed.
TopCtx == apply(newOptions, dops).context
Settings(c) == [noUnknown |-> c.noUnknown, typeReg |-> c.typeReg, encReg |-> c.encReg]
ActiveCtx == IF TopCtx.nil THEN newContext ELSE TopCtx

\* C1 (Null short-circuit): decoding a Null node through a valid pointer
\* succeeds and leaves the zero value of the slot's type, whatever the type
\* and whatever the slot held, and enters no hook, no constructor and no
\* generic decode function; nor is any of those entered for a Null node
\* nested in the tree decoded.
C1_NullShortCircuit ==
    dpc = "done" =>
        /\ (dnode.k = "null" /\ dvalid = "ok") => dres = Done(Zero(dtype), <<>>)
        /\ \A j \in 1..Len(dres.log) :
              dres.log[j].ev \in {"generic", "hook", "ctor"} => dres.log[j].node.k # "null"

\* C1 witness: a Null decoded into an interface slot holding a value, with a
\* constructor registered for the interface, and into a slot with a hook.
C1_Witness ==
    /\ dpc = "done" /\ dnode.k = "null" /\ dvalid = "ok"
    /\ dtype = UserType /\ "UserType" \in DOMAIN dreg /\ dops = <<>>
    /\ dinit # NilIface /\ dres.val = NilIface

\* The struct type an Object lands in, and the first key of the object that
\* names no entry of its field table (0 if there is none).
StructOf(t) ==
    IF t.k = "struct" THEN t.id
    ELSE IF t.k = "ptr" /\ t.elem.k = "struct" THEN t.elem.id
    ELSE ""
Unmatched(id, key) ==
    \A name \in DOMAIN FieldTable(DecodeStructs, id) : NameRunes[name] # key
FirstUnmatched(o, id) ==
    IF \E i \in 1..Len(o) : Unmatched(id, o[i].Key)
    THEN CHOOSE i \in 1..Len(o) :
            /\ Unmatched(id, o[i].Key)
            /\ \A j \in 1..(i - 1) : ~Unmatched(id, o[j].Key)
    ELSE 0
StrictCase ==
    /\ dpc = "done" /\ dvalid = "ok" /\ dnode.k = "object"
    /\ StructOf(dtype) # ""
    /\ TopCtx.noUnknown
    /\ FirstUnmatched(dnode.v, StructOf(dtype)) # 0
UndefinedField ==
    DecodeErr("undefined field", dnode.v[FirstUnmatched(dnode.v, StructOf(dtype))].Key,
              StructOf(dtype))
BeforeUnmatched ==
    decodeNode("ok",
               Object(SubSeq(dnode.v, 1, FirstUnmatched(dnode.v, StructOf(dtype)) - 1)),
               dtype, dinit, dops, "top", 0)

\* C4 as stated: under OpDisallowUnknownFields, decoding an Object into a
\* struct fails at the first key, in source order, that matches no entry of
\* the struct's field table, with the error naming that key and the type.
C4_AsStated == StrictCase => dres.err = UndefinedField

\* C4 (strict unknown-field mode), amended: the decode fails at the first
\* unmatched key with the error naming that key and the type, provided the
\* fields before that key decode; if one of them fails, the decode fails
\* with that field's error and the unmatched key is never reached.
C4_StrictUnknownField ==
    StrictCase =>
        IF BeforeUnmatched.err = NoErr THEN dres.err = UndefinedField
        ELSE dres.err = BeforeUnmatched.err /\ dres.err # UndefinedField

\* C4 witness: a matched key, then the name of a field tagged "-", refused.
C4_Witness ==
    /\ StrictCase
    /\ FirstUnmatched(dnode.v, StructOf(dtype)) = 2
    /\ dnode.v[2].Key = TxtUpperS
    /\ dres.err = DecodeErr("undefined field", TxtUpperS, "Leaf")

\* C5 (context propagation): every generic decode function and constructor
\* entered, at any depth, through a struct field, a map value, an array
\* element or a synthesized default type, works under the flag and the
\* registries of the outermost call, as does every decision on an unknown
\* key; so under OpDisallowUnknownFields no unknown key of a struct is passed
\* over at any depth, and one that is met fails the whole decode with the
\* undefined-field error of that key and struct.
C5_ContextPropagation ==
    dpc = "done" =>
        /\ \A j \in 1..Len(dres.log) :
              (dres.log[j].ev # "hook" /\ dres.log[j].via # "mapkey")
                  => Settings(dres.log[j].ctx) = Settings(TopCtx)
        /\ TopCtx.noUnknown =>
              \A j \in 1..Len(dres.log) :
                 /\ dres.log[j].ev # "skip"
                 /\ dres.log[j].ev = "undefined" =>
                       dres.err = DecodeErr("undefined field", dres.log[j].node.v,
                                            dres.log[j].typ)

\* C5 witness: strict mode set on the outermost call only, and an unknown key
\* refused in a Leaf held in a slice held in a Mid held in a Top.
C5_Witness ==
    /\ dpc = "done" /\ dtype = StructT("Top") /\ dops = <<OpDisallowUnknownFields>>
    /\ \E j \in 1..Len(dres.log) :
          /\ dres.log[j].ev = "generic" /\ dres.log[j].via = "elem"
          /\ dres.log[j].typ = "Leaf"
    /\ dres.err = DecodeErr("undefined field", TxtB, "Leaf")

\* The constructor that the registry in force holds for the interface of
\* the slots ("nil": none): the registry given with the options, or the
\* default registry as the Decode read it.
ActiveCtor ==
    IF TopCtx.typeReg # "nil" THEN get(TypeRegistries[TopCtx.typeReg], dtype.elem.id)
    ELSE IF dseen # <<>> THEN dseen[1]
    ELSE get(dreg, dtype.elem.id)
UserCase ==
    /\ dpc = "done" /\ dvalid = "ok" /\ dnode.k = "arr"
    /\ dtype.k \in {"slice", "array"}
    /\ dtype.elem.k = "iface" /\ dtype.elem # nodeType
Slots ==
    IF dtype.k = "array" /\ dtype.len < Len(dnode.v) THEN dtype.len ELSE Len(dnode.v)
SlotValue(i) == IF dtype.k = "slice" THEN dres.val.v.e[i] ELSE dres.val.v[i]
Constructed(i) == UserTypeFunc(dnode.v[i], ActiveCtx, 0)
Refused(i) == dnode.v[i].k # "null" /\ Constructed(i).err # NoErr
FirstRefused ==
    IF \E i \in 1..Slots : Refused(i)
    THEN CHOOSE i \in 1..Slots : Refused(i) /\ \A j \in 1..(i - 1) : ~Refused(j)
    ELSE Slots + 1
Offered ==
    SelectSeq([i \in 1..Slots |-> i],
              LAMBDA i : i <= FirstRefused /\ dnode.v[i].k # "null")
ConstructorCalls == SelectSeq(dres.log, LAMBDA e : e.ev = "ctor")

\* C8 (Type Registry dispatch): decoding an array into a slice or array of an
\* interface registered in the registry in force calls the constructor once
\* for each non-null element in source order, up to the first it refuses,
\* with the element's node and the context in force, and stores what it
\* returns at the element's index (a null element leaves a nil interface);
\* an error of the constructor becomes the error of the whole decode. For an
\* interface not registered no constructor is called and the element is
\* decoded into the default type of its node.
C8_RegistryDispatch ==
    UserCase =>
        IF ActiveCtor # "nil"
        THEN /\ ConstructorCalls =
                   [j \in 1..Len(Offered) |->
                       Entry("ctor", ActiveCtor, dnode.v[Offered[j]],
                             ActiveCtx, "elem")]
             /\ FirstRefused <= Slots => dres.err = Constructed(FirstRefused).err
             /\ FirstRefused > Slots =>
                   /\ dres.err = NoErr
                   /\ \A i \in 1..Slots :
                         SlotValue(i) = IF dnode.v[i].k = "null" THEN NilIface
                                        ELSE IfaceOf(Constructed(i).val)
        ELSE /\ ConstructorCalls = <<>>
             /\ \A i \in 1..Slots :
                   (dnode.v[i].k # "null" /\ \A j \in 1..(i - 1) : dnode.v[j].k = "null")
                      => \E j \in 1..Len(dres.log) :
                            /\ dres.log[j].ev = "generic" /\ dres.log[j].via = "elem"
                            /\ dres.log[j].typ = TypeName(DefaultType(dnode.v[i]))
                            /\ dres.log[j].node.k = dnode.v[i].k
                            /\ dres.log[j].node = dnode.v[i]
                            /\ dres.log[j].ctx = ActiveCtx

\* C8 witness: a null, then two objects of different kinds, decoded into a
\* slice of UserType under a registry given by OpTypes.
C8_Witness ==
    /\ UserCase /\ dtype = SliceT(UserType)
    /\ dops = <<OpTypes("R1")>> /\ dreg = EmptyMap
    /\ Len(dnode.v) = 3 /\ dnode.v[1].k = "null"
    /\ Len(ConstructorCalls) = 2
    /\ dres.err = NoErr
    /\ dres.val.v.e[1] = NilIface
    /\ dres.val.v.e[2].v[1].v[1].v.id = "UserTypeInt"
    /\ dres.val.v.e[3].v[1].v[1].v.id = "UserTypeStr"

\* The encoders, written from the alphabets: hex in lower case, Base64 with
\* padding.
HexDigit(n) == IF n < 10 THEN Ch0 + n ELSE ChLowerA + n - 10

RECURSIVE HexOf(_)
HexOf(b) ==
    IF b = <<>> THEN <<>>
    ELSE <<HexDigit(Head(b) \div 16), HexDigit(Head(b) % 16)>> \o HexOf(Tail(b))

B64Char(v) ==
    IF v < 26 THEN ChUpperA + v
    ELSE IF v < 52 THEN ChLowerA + v - 26
    ELSE IF v < 62 THEN Ch0 + v - 52
    ELSE IF v = 62 THEN ChPlus ELSE ChSlash

RECURSIVE Base64Of(_)
Base64Of(b) ==
    IF b = <<>> THEN <<>>
    ELSE IF Len(b) = 1
    THEN <<B64Char(b[1] \div 4), B64Char((b[1] % 4) * 16), ChPad, ChPad>>
    ELSE IF Len(b) = 2
    THEN <<B64Char(b[1] \div 4), B64Char((b[1] % 4) * 16 + b[2] \div 16),
           B64Char((b[2] % 16) * 4), ChPad>>
    ELSE <<B64Char(b[1] \div 4), B64Char((b[1] % 4) * 16 + b[2] \div 16),
           B64Char((b[2] % 16) * 4 + b[3] \div 64), B64Char(b[3] % 64)>>
         \o Base64Of(SubSeq(b, 4, Len(b)))

EncodingOf(enc, b) == IF enc = "Hex" THEN HexOf(b) ELSE Base64Of(b)

\* A text without the line breaks Base64 skips.
Unbroken(enc, txt) ==
    IF enc = "Hex" THEN txt ELSE SelectSeq(txt, LAMBDA c : c \notin {ChLF, ChCR})

\* The byte strings whose encodings are among the texts drawn.
PlainBytes == {[j \in 1..n |-> ChLowerA] : n \in 0..3}
WellFormed(enc, txt) == \E b \in PlainBytes : EncodingOf(enc, b) = txt

\* A String node decoded into a string or a byte slice at the top: the
\* options of the call, the scheme the claim selects, the bytes stored.
TextCase ==
    /\ dpc = "done" /\ dvalid = "ok" /\ dnode.k = "str"
    /\ dtype.k = "string" \/ isBytes(dtype)

TopOptions == apply(newOptions, dops)

Scheme ==
    IF TopOptions.enc # "nil" THEN TopOptions.enc
    ELSE IF isBytes(dtype) /\ ~TopOptions.str THEN "Base64"
    ELSE "nil"

StoredBytes(val) ==
    IF val.k = "string" THEN val.v ELSE [j \in 1..Len(val.v.e) |-> val.v.e[j].v]

SchemeErrors(enc) ==
    IF enc = "Hex" THEN {"hex: invalid byte", "hex: odd length"}
    ELSE {"base64: illegal data"}

\* C14: a String node into a byte slice is Base64-decoded when neither
\* asString nor an encoding is given and copied byte for byte when asString
\* is given without an encoding; with an encoding given, that scheme decodes
\* the text, into a byte slice or a string, and a malformed text fails with
\* the scheme's error, writing nothing; a string without an encoding gets the
\* text as it is.
C14_ByteEncodingSelection ==
    TextCase =>
        IF Scheme = "nil"
        THEN /\ dres.err = NoErr
             /\ StoredBytes(dres.val) =
                    (IF dtype.k = "string" THEN dnode.v ELSE bytesOf(dnode.v))
        ELSE /\ WellFormed(Scheme, dnode.v) => dres.err = NoErr
             /\ dres.err = NoErr =>
                    EncodingOf(Scheme, StoredBytes(dres.val)) = Unbroken(Scheme, dnode.v)
             /\ dres.err # NoErr =>
                    /\ dres.err.e \in SchemeErrors(Scheme)
                    /\ dres.val = dinit

\* C14 witness: "YWFh" into a byte slice without options gave the bytes of
\* aaa.
C14_Witness ==
    /\ TextCase /\ isBytes(dtype) /\ dops = <<>>
    /\ dnode.v = <<89, 87, 70, 104>>
    /\ dres.err = NoErr
    /\ StoredBytes(dres.val) = <<ChLowerA, ChLowerA, ChLowerA>>

\* An Array node decoded at the top: into a sequence, through any pointers,
\* or into a destination the generic decode function of Array rejects.
ArrayCase == dpc = "done" /\ dvalid = "ok" /\ dnode.k = "arr"

RECURSIVE Pointee(_), PointeeValue(_, _)
Pointee(t) == IF t.k = "ptr" THEN Pointee(t.elem) ELSE t
PointeeValue(t, val) ==
    IF t.k # "ptr" THEN val
    ELSE IF val.v = <<>> THEN Zero(Pointee(t))
    ELSE PointeeValue(t.elem, val.v[1])

SeqType == Pointee(dtype)
SeqBefore == PointeeValue(dtype, dinit)
SeqAfter == PointeeValue(dtype, dres.val)

\* Element i of the source decoded on its own into a slot holding start,
\* after the reads of the default registries that the elements before it
\* make.
ElemAfter(i, start, n) ==
    decodeNode("ok", dnode.v[i], SeqType.elem, start,
               mkChildOptions(TopOptions, <<>>), "elem", n)
RECURSIVE ReadsBefore(_)
ReadsBefore(i) ==
    IF i = 1 THEN 0
    ELSE ReadsBefore(i - 1)
           + Reads(ElemAfter(i - 1, Zero(SeqType.elem), ReadsBefore(i - 1)).log)
ElemDecoded(i, start) == ElemAfter(i, start, ReadsBefore(i))

Min(a, b) == IF a < b THEN a ELSE b

NoSequence(t) == t.k \notin {"slice", "array", "iface"} /\ ~ImplementsDecoder(t)

\* C15: an Array of n elements decoded into a slice leaves a slice of exactly
\* n elements, element i decoded from source element i and nothing of the
\* old contents; into a fixed-size array of N elements it decodes source
\* elements 0..min(n,N)-1 into the same indexes, leaves the other indexes
\* alone and ignores the source elements beyond N, which cause no error; a
\* destination the generic function gets that is neither fails with the
\* slice-or-array-expected error.
C15_ArrayDecodeShape ==
    ArrayCase =>
        /\ (SeqType.k = "slice" /\ dres.err = NoErr) =>
              /\ ~SeqAfter.v.nil
              /\ Len(SeqAfter.v.e) = Len(dnode.v)
              /\ \A i \in 1..Len(dnode.v) :
                    SeqAfter.v.e[i] = ElemDecoded(i, Zero(SeqType.elem)).val
        /\ (SeqType.k = "slice" /\ dres.err # NoErr) =>
              \E i \in 1..Len(dnode.v) : ElemDecoded(i, Zero(SeqType.elem)).err = dres.err
        /\ SeqType.k = "array" =>
              /\ dres.err = NoErr <=>
                    \A i \in 1..Min(Len(dnode.v), SeqType.len) :
                        ElemDecoded(i, SeqBefore.v[i]).err = NoErr
              /\ dres.err = NoErr =>
                    \A i \in 1..SeqType.len :
                        SeqAfter.v[i] =
                            IF i <= Len(dnode.v) THEN ElemDecoded(i, SeqBefore.v[i]).val
                            ELSE SeqBefore.v[i]
        /\ NoSequence(SeqType) =>
              /\ dres.err.e = "slice or array expected"
              /\ SeqAfter = SeqBefore

\* C15 witness: three elements went into a slice that held four others.
C15_Witness ==
    /\ ArrayCase /\ Len(dnode.v) = 3 /\ dres.err = NoErr
    /\ dtype.k = "slice" /\ Len(dinit.v.e) = 4 /\ Len(dres.val.v.e) = 3
    /\ dres.val.v.e[1] = IntV(1)

\* An Object decoded into a struct at the top without strict mode: the
\* struct before and after, its field table, the keys of the source that
\* the table has.
LooseCase ==
    /\ dpc = "done" /\ dvalid = "ok" /\ dnode.k = "object"
    /\ StructOf(dtype) # ""
    /\ ~ActiveCtx.noUnknown

StructBefore == PointeeValue(dtype, dinit)
StructAfter == PointeeValue(dtype, dres.val)
TopTable == FieldTable(DecodeStructs, StructOf(dtype))
HasKey(name) == \E i \in 1..Len(dnode.v) : dnode.v[i].Key = NameRunes[name]
MatchedOnly ==
    Object(SelectSeq(dnode.v, LAMBDA f : ~Unmatched(StructOf(dtype), f.Key)))
WithoutUnmatched == decodeNode("ok", MatchedOnly, dtype, dinit, dops, "top", 0)

\* C16: without disallowUnknownFields the unmatched keys of the source change
\* nothing, neither the outcome nor the struct: the decode ends as the decode
\* of the matched keys alone does; every field of the table that no source
\* key names holds what it held; and a declared field of the struct that is
\* on the path of no matched key (a field kept out of JSON, an embedded
\* pointer nothing matched was reached through) is untouched.
C16_NonStrictFrame ==
    LooseCase =>
        /\ dres.err = WithoutUnmatched.err
        /\ dres.val = WithoutUnmatched.val
        /\ \A name \in DOMAIN TopTable :
              ~HasKey(name) =>
                  FieldAt(StructAfter, TopTable[name].Index)
                      = FieldAt(StructBefore, TopTable[name].Index)
        /\ \A j \in 1..Len(StructBefore.v.f) :
              (\A name \in DOMAIN TopTable :
                    HasKey(name) => TopTable[name].Index[1] # j - 1)
                  => StructAfter.v.f[j] = StructBefore.v.f[j]

\* C16 witness: an unknown key and a matched one decoded into a Leaf that
\* held 5 and 6: the decode succeeded, the matched field changed, the field
\* kept out of JSON did not.
C16_Witness ==
    /\ LooseCase /\ StructOf(dtype) = "Leaf" /\ dtype.k = "struct"
    /\ Len(dnode.v) = 2 /\ dnode.v[1].Key = TxtB /\ dnode.v[2].Key = TxtA
    /\ dinit = LeafV(5, 6)
    /\ dres.err = NoErr
    /\ dres.val = LeafV(1, 6)

\* C13 as stated: whatever the node, a destination that is no pointer, the
\* untyped nil included, gets the pointer-expected error and a nil pointer the
\* nil-pointer error; the call returns an error, calls nothing and writes
\* nothing.
C13_DestinationValidated ==
    (dpc = "done" /\ dvalid # "ok")
        => /\ dres.err.e =
                (IF dvalid = "nilptr" THEN "nil pointer" ELSE "pointer expected")
           /\ dres.val = dinit
           /\ dres.log = <<>>

\* C20 as stated: an Object decoded into a map whose key type is not a
\* string fails with the map-key-must-be-string error, whatever the object,
\* one with keys of decimal digits included, and the map is left alone.
C20_MapKeyMustBeString ==
    (/\ dpc = "done" /\ dvalid = "ok" /\ dnode.k = "object"
     /\ dtype.k = "map" /\ dtype.key.k # "string")
        => /\ dres.err.e = "map key must be string"
           /\ dres.val = dinit

\* A String node decoded at the top into an integer or into a boolean.
IntegerCase ==
    /\ dpc = "done" /\ dvalid = "ok" /\ dnode.k = "str"
    /\ dtype.k \in {"int", "uint8"}
BooleanCase ==
    /\ dpc = "done" /\ dvalid = "ok" /\ dnode.k = "str"
    /\ dtype.k = "bool"

\* The text is a decimal integer (a sign only before a signed kind), its
\* value, and whether a kind of the destination's width holds that value.
Signed(t) == t.k = "int"
Digits(s, t) ==
    IF Signed(t) /\ s # <<>> /\ s[1] \in {ChPlus, ChMinus} THEN Tail(s) ELSE s
IsDecimal(s, t) ==
    Digits(s, t) # <<>> /\ \A j \in 1..Len(Digits(s, t)) : IsDigit(Digits(s, t)[j])
DecimalValue(s, t) ==
    (IF Signed(t) /\ s[1] = ChMinus THEN 0 - 1 ELSE 1)
        * digitsValue(Digits(s, t), 1, Len(Digits(s, t)) + 1, 0)
\* A text of at most nine digits is inside the range of the 64-bit int.
InWidth(n, t) == t.k = "uint8" => n \in 0..255
Stored(t, n) == IF t.k = "uint8" THEN Uint8V(n) ELSE IntV(n)

\* C23 as stated: with asString, a String into an integer kind fails when the
\* text is no decimal integer or when its value is outside the range of the
\* kind's width, writing nothing, and otherwise stores exactly the parsed
\* value.
C23_AsStringIntegerWidth ==
    (IntegerCase /\ TopOptions.str) =>
        IF IsDecimal(dnode.v, dtype) /\ InWidth(DecimalValue(dnode.v, dtype), dtype)
        THEN dres.err = NoErr /\ dres.val = Stored(dtype, DecimalValue(dnode.v, dtype))
        ELSE dres.err # NoErr /\ dres.val = dinit

\* C24 as stated: with asString, a String into a boolean succeeds for the
\* texts true and false only, storing that value, and fails for every other
\* text; without asString it fails with the cannot-convert-string error.
C24_AsStringBooleanExact ==
    BooleanCase =>
        IF ~TopOptions.str
        THEN dres.err = DecodeErr("can't convert string", <<>>, TypeName(dtype))
        ELSE IF dnode.v \in {KwTrue, KwFalse}
        THEN dres.err = NoErr /\ dres.val = BoolV(dnode.v = KwTrue)
        ELSE dres.err # NoErr /\ dres.val = dinit

\* Two nodes are the same, compared kind first and part by part.
RECURSIVE NodeEq(_, _)
NodeEq(a, b) ==
    /\ a.k = b.k
    /\ CASE a.k = "arr" ->
               /\ Len(a.v) = Len(b.v)
               /\ \A j \in 1..Len(a.v) : NodeEq(a.v[j], b.v[j])
         [] a.k = "object" ->
               /\ Len(a.v) = Len(b.v)
               /\ \A j \in 1..Len(a.v) :
                     a.v[j].Key = b.v[j].Key /\ NodeEq(a.v[j].Value, b.v[j].Value)
         [] OTHER -> a.v = b.v

\* A container around one leaf was decoded into a zero destination.
NestCase(n) ==
    /\ dpc = "done" /\ dvalid = "ok" /\ dtype = Nests[n].t /\ dinit = Zero(dtype)
    /\ NodeEq(dnode, Nests[n].node)

\* The node-scoped settings a list of options gives, and the options given
\* through every OpElem of a list.
RECURSIVE LastEncoding(_), ElemOps(_)
LastEncoding(ops) ==
    IF ops = <<>> THEN "nil"
    ELSE IF ops[Len(ops)].op = "OpEncoding" THEN ops[Len(ops)].enc
    ELSE LastEncoding(SubSeq(ops, 1, Len(ops) - 1))
Given(ops) ==
    [str |-> \E j \in 1..Len(ops) : ops[j].op = "OpString", enc |-> LastEncoding(ops)]
ElemOps(ops) ==
    IF ops = <<>> THEN <<>>
    ELSE (IF Head(ops).op = "OpElem" THEN Head(ops).ops ELSE <<>>) \o ElemOps(Tail(ops))
NoneGiven == Given(<<>>)

\* The settings that reach the leaf when element options go one level down
\* and no further: the call's own options for the node decoded, the options
\* given through OpElem for its direct elements (the fields of a struct
\* among them), the bracketed tag option of a field for the direct elements
\* of that field, and nothing for elements nested deeper.
InForce(n) ==
    CASE Nests[n].where = "top0" -> Given(dops)
      [] Nests[n].where \in {"top1", "tag0"} -> Given(ElemOps(dops))
      [] Nests[n].where = "tag1" ->
            IF Nests[n].leaf = "int" THEN Given(<<OpString>>)
            ELSE Given(<<OpEncoding("Hex")>>)
      [] OTHER -> NoneGiven

\* What the leaf becomes under those settings: 12 parses only with asString,
\* 6162 is the hex of ab.
LeafFails(n) == Nests[n].leaf = "int" /\ ~InForce(n).str
LeafValue(n) ==
    IF Nests[n].leaf = "int" THEN IntV(12)
    ELSE IF InForce(n).enc = "Hex" THEN StringV(<<ChLowerA, ChLowerB>>)
    ELSE StringV(Txt6162)

\* The destination of type t once the one leaf of node holds x.
RECURSIVE Around(_, _, _)
Around(t, node, x) ==
    CASE t.k = "slice" -> SliceV(<<Around(t.elem, node.v[1], x)>>)
      [] t.k = "map" ->
            MapV(StringV(node.v[1].Key) :> Around(t.elem, node.v[1].Value, x))
      [] t.k = "struct" ->
            LET j == CHOOSE j \in 1..Len(DecodeStructs[t.id]) :
                        NameRunes[DecodeStructs[t.id][j].tag] = node.v[1].Key
            IN WithField(Zero(t), <<j - 1>>,
                         Around(DecodeStructs[t.id][j].typ, node.v[1].Value, x))
      [] OTHER -> x

\* C26. Element options reach exactly one level down: asString and an
\* encoding given through OpElem, or through a bracketed field tag option,
\* are in force for each direct element of the container they are given on,
\* not for that container itself and not for the elements of a container
\* nested in it; an array of arrays of the text 12 decoded with
\* OpElem(OpString) fails at the inner element.
C26_ElementOptionsOneLevel ==
    \A n \in 1..Len(Nests) :
        NestCase(n) =>
            IF LeafFails(n)
            THEN dres.err = DecodeErr("can't convert string", <<>>, "int")
            ELSE /\ dres.err = NoErr
                 /\ dres.val = Around(dtype, dnode, LeafValue(n))

\* C26 witness: [["12"]] into a slice of slices of ints with
\* OpElem(OpString) failed at the inner element, and ["12"] into a slice of
\* ints with the same option would not: the state is the first of the two.
C26_Witness ==
    /\ NestCase(3)
    /\ dops = <<OpElem(<<OpString>>)>>
    /\ dres.err = DecodeErr("can't convert string", <<>>, "int")

\* An Object node decoded at the top into a map keyed by strings, through
\* any pointers.
MapCase ==
    /\ dpc = "done" /\ dvalid = "ok" /\ dnode.k = "object"
    /\ Pointee(dtype).k = "map" /\ Pointee(dtype).key.k = "string"
MapBefore == PointeeValue(dtype, dinit)
MapAfter == PointeeValue(dtype, dres.val)
SourceKeys == {StringV(dnode.v[j].Key) : j \in 1..Len(dnode.v)}

\* C27. Map decode builds a fresh map: after a successful decode of an
\* Object into a map keyed by strings the map is not nil and its key set is
\* exactly the key set of the object, so what the map held before is gone.
C27_FreshMap ==
    (MapCase /\ dres.err = NoErr)
        => /\ ~MapAfter.v.nil
           /\ DOMAIN MapAfter.v.m = SourceKeys

\* C27 witness: {"a":2} into a map[string]int that held x: 5 left a: 2 alone
\* in the map.
C27_Witness ==
    /\ MapCase /\ dtype = MapT(StringT, IntT)
    /\ dinit = MapV(StringV(TxtX) :> IntV(5))
    /\ dres.err = NoErr
    /\ dres.val = MapV(StringV(TxtA) :> IntV(2))

\* An Array node decoded at the top into a slice, or an Object node into a
\* map, through any pointers.
ContainerCase ==
    /\ dpc = "done" /\ dvalid = "ok"
    /\ \/ dnode.k = "arr" /\ Pointee(dtype).k = "slice"
       \/ dnode.k = "object" /\ Pointee(dtype).k = "map"

\* C29. Failure atomicity for slices and maps: when an Array-to-slice or an
\* Object-to-map decode fails at an element, a key or a value, the slice or
\* map the destination resolves to holds exactly what it held before the
\* call.
C29_FailureAtomicity ==
    (ContainerCase /\ dres.err # NoErr)
        => PointeeValue(dtype, dres.val) = PointeeValue(dtype, dinit)

\* C29 witness: [1, "x"] into a slice of ints holding 7, 8, 9, 10 failed at
\* the second element and the slice holds 7, 8, 9, 10.
C29_Witness ==
    /\ ContainerCase /\ dtype = SliceT(IntT)
    /\ Len(dnode.v) = 2 /\ dnode.v[1].k = "num" /\ dnode.v[2].k = "str"
    /\ dinit = SliceV(<<IntV(7), IntV(8), IntV(9), IntV(10)>>)
    /\ dres.err.e = "can't convert string"
    /\ dres.val = dinit

(***************************************************************************)
(* Specifications                                                          *)
(***************************************************************************)
InitFields == FieldsInit /\ RegistryIdle /\ ParserIdle /\ DecodeIdle /\ ReaderIdle
SpecFields == InitFields /\ [][FieldsNext]_vars

InitRegistry == RegistryInit /\ FieldsIdle /\ ParserIdle /\ DecodeIdle /\ ReaderIdle
SpecRegistry == InitRegistry /\ [][RegistryNext]_vars

\* The Go scheduler runs every goroutine that can run, and sync.RWMutex
\* starves nobody: a goroutine that waits in Lock or RLock gets the lock if
\* the lock is free again and again.
RegistryFairness ==
    \A p \in Procs :
        /\ WF_vars(\/ LockAcquired(p) \/ DuplicatePanic(p) \/ StoreBegin(p)
                   \/ StoreEnd(p) \/ Unlock(p) \/ ReadMap(p) \/ RUnlock(p)
                   \/ LookupReturn(p) \/ CtorCall(p))
        /\ SF_vars(Lock(p))
        /\ SF_vars(RLock(p))
SpecRegistryFair == InitRegistry /\ [][RegistryNext]_vars /\ RegistryFairness

InitParser == ParserInit /\ FieldsIdle /\ RegistryIdle /\ DecodeIdle /\ ReaderIdle
SpecParser == InitParser /\ [][ParserNext]_vars

InitDecode == DecodeInit /\ FieldsIdle /\ RegistryIdle /\ ParserIdle /\ ReaderIdle
SpecDecode == InitDecode /\ [][DecodeNext]_vars

InitDecoder == DecoderInit /\ FieldsIdle /\ RegistryIdle /\ ReaderIdle
SpecDecoder == InitDecoder /\ [][DecoderNext]_vars

InitReader == ReaderInit /\ FieldsIdle /\ RegistryIdle /\ ParserIdle /\ DecodeIdle
SpecReader == InitReader /\ [][ReaderNext]_vars

InitScanner == ScannerInit /\ FieldsIdle /\ RegistryIdle /\ ParserIdle /\ DecodeIdle
SpecScanner == InitScanner /\ [][ReaderNext]_vars

====
